---- MODULE Spec2Model ----
(***************************************************************************)
(* Model of run_gcmbiasadj_list_multiprocess_v2.py (PyGEM GCM bias         *)
(* adjustment): the batch orchestrator (__main__: chunking, dispatch of    *)
(* main() per chunk, merge of the chunk files over the output directory)   *)
(* and the per-glacier bias-adjustment computation of main().              *)
(***************************************************************************)
EXTENDS Integers, Sequences, FiniteSets, Bags, TLC

\* ------------------------------------------------------------------ bounds
MaxN == 4        \* largest glacier population main_glac_rgi_all.shape[0]
MaxW == 2        \* largest -num_simultaneous_processes
MaxGcms == 2     \* longest gcm_list
MaxDay == 1      \* calendar days strftime("%Y%m%d") can return
MaxRuns == 2     \* invocations of the script on the same output directory
NumBins == 2     \* elevation bins, columns of main_glac_hyps
MaxChunk == 2    \* glaciers of one chunk, main_glac_rgi.shape[0]
WideBins == 104  \* elevation bins of the hypsometry of a high glacier
MaxYears == 2    \* years of the reference period, ref_temp.shape[1] / 12

\* ------------------------------------------------------- program constants
gcm_startyear == 2000
gcm_spinupyears == 5
gcm_endyear == 2015
NumMonths == 12      \* reshape(-1,12): columns of the lapse-rate climatology
bias_adj_init == 0    \* start point of the stage-1 minimiser
binsize == 10        \* pygem_input_spc.py: width of an elevation bin [m]

Procs == {1, 2}      \* script processes sharing output_filepath
AllGcms == <<"gcmA", "gcmB", "gcmC">>

VARIABLES
    dir,                        \* output_filepath: file name -> file
    today,                      \* the day strftime returned last
    nglac,                      \* main_glac_rgi_all.shape[0]
    num_simultaneous_processes, \* args, per process
    option_parallels,           \* args, per process
    rcp_scenario,               \* from args.gcm_file, per process
    gcm_list,                   \* lines of args.gcm_file, per process
    pc,                         \* position of each script process
    gi,                         \* index of gcm_name in gcm_list
    chunk_size,
    list_packed_vars,           \* chunk offsets packed for the current GCM
    chunk_state,                \* chunk offset -> pending/running/written/failed
    todo,                       \* entries of os.listdir not yet visited
    biasadj_list,               \* len(biasadj_list): only its length is ever used
    lr_list,                    \* len(lr_list)
    biasadj_all,
    lr_all,
    mergeRead,                  \* history: files read by the current merge
    wrote,                      \* history: gcm indices whose merge wrote its table
    invocations,                \* number of times the script was started
    gpc,                        \* position of main() in its glacier loop
    nrows,                      \* main_glac_rgi.shape[0] of the chunk
    glac,                       \* glaciers of the chunk already passed
    glacier_area_t0,
    icethickness_t0,
    glacier_ref_prec,
    glacier_gcm_prec,
    glac_bin_temp_ref,
    glac_bin_temp_gcm,
    glac_bin_temp_gcm_adj,
    glac_bin_prec_ref,
    glac_bin_prec_gcm,
    glac_bin_acc_ref,
    glac_bin_acc_gcm,
    bias_adj_temp_opt,          \* result of the stage-1 minimize: x, success
    bias_adj_params,            \* start point of stage 2
    bias_adj_params_opt_raw,    \* result of the stage-2 minimize: x, success
    main_glac_bias_adj,         \* rows of the chunk: temp_adj, prec_adj
    minimize_calls,             \* history: minimize calls per glacier
    runmassbalance_calls,       \* history: mass-balance runs per glacier
    icethickness_max,           \* history: icethickness_t0.max() per glacier
    fn,                         \* the function applied on its own, "off" if none
    fn_args,                    \* its arguments, by their names in the source
    fn_result                   \* its result

batchVars == <<dir, today, nglac, num_simultaneous_processes, option_parallels,
               rcp_scenario, gcm_list, pc, gi, chunk_size, list_packed_vars,
               chunk_state, todo, biasadj_list, lr_list, biasadj_all, lr_all,
               mergeRead, wrote, invocations>>

glacVars == <<gpc, nrows, glac, glacier_area_t0, icethickness_t0, glacier_ref_prec,
              glacier_gcm_prec, glac_bin_temp_ref, glac_bin_temp_gcm,
              glac_bin_temp_gcm_adj, glac_bin_prec_ref, glac_bin_prec_gcm,
              glac_bin_acc_ref, glac_bin_acc_gcm, bias_adj_temp_opt, bias_adj_params,
              bias_adj_params_opt_raw, main_glac_bias_adj, minimize_calls, runmassbalance_calls,
              icethickness_max>>

fnVars == <<fn, fn_args, fn_result>>

vars == <<batchVars, glacVars, fnVars>>

\* ------------------------------------------------------------ conversions
Digits == <<"0", "1", "2", "3", "4", "5", "6", "7", "8", "9">>

RECURSIVE Str(_)
\* str(n) of a non-negative integer
Str(n) == IF n < 10 THEN Digits[n + 1] ELSE Str(n \div 10) \o Digits[(n % 10) + 1]

\* strftime("%Y%m%d") on day d of the month
DateStr(d) == "201806" \o (IF d < 10 THEN "0" \o Str(d) ELSE Str(d))

\* str.startswith on names split on '_' (no token contains '_', and every
\* prefix used ends with '_', so token prefix = character prefix)
StartsWith(f, p) == Len(f) >= Len(p) /\ SubSeq(f, 1, Len(p)) = p

\* a name that is not bound (NameError on use)
Undefined == [def |-> FALSE, ndim |-> 0, a |-> <<>>]

\* ---------------------------------------------------------------- file names
YearTokens == <<Str(gcm_startyear - gcm_spinupyears), Str(gcm_endyear)>>

\* main(): output_biasadjparams_fn
output_biasadjparams_fn(g, s, d, c) ==
    <<g, s, "biasadj", "opt1">> \o YearTokens \o <<DateStr(d), Str(c)>>

\* main(): output_filename_lr
output_filename_lr(c) == <<"biasadj", "mon", "lravg">> \o YearTokens \o <<Str(c)>>

\* a prefix without the scenario
output_biasadj_prefix_noRcp(g, s) == <<g>>

\* __main__: output_biasadj_prefix
output_biasadj_prefix(g, s) == <<g, s, "biasadj", "opt1">> \o YearTokens

\* __main__: output_lr_prefix
output_lr_prefix == <<"biasadj", "mon", "lravg">>

\* __main__: biasadj_all_fn
biasadj_all_fn(g, s, d) == <<g, s, "biasadj", "opt1">> \o YearTokens \o <<DateStr(d)>>

\* __main__: lr_all_fn
lr_all_fn(d) == <<"biasadj", "mon", "lravg">> \o YearTokens \o <<DateStr(d)>>

\* ------------------------------------------------------------------ chunking
\* the quotient rounded up even when the division is exact
ChunkSize_exactUp(n, w) == (n \div w) + 1

\* int(np.ceil(n / w))
ChunkSize(n, w) == (n + w - 1) \div w

\* range(start, stop, step) as a sequence
Range(start, stop, step) ==
    [k \in 1..((stop - start + step - 1) \div step) |-> start + (k - 1) * step]

\* main_glac_rgi_all.iloc[chunk:chunk + chunk_size]: the RGIId of the
\* glacier at position p (0-based) is p + 1
ChunkIds(c, size, n) ==
    [k \in 1..((IF c + size < n THEN c + size ELSE n) - c) |-> c + k]

\* rows of main_glac_bias_adj as written by to_csv: RGIId, GCM, rcp_scenario.
\* A table is kept as the bag of its rows: nothing in the program depends on
\* the order of the rows of a result table.
BiasAdjRows(c, size, n, g, s) ==
    LET ids == ChunkIds(c, size, n) IN SetToBag({<<ids[k], g, s>> : k \in 1..Len(ids)})

\* ref_lr_monthly_avg value of glacier id at calendar position m
LrAvg(id, m) == id * 100 + m

\* ref_lr_monthly_avg of a chunk: always two-dimensional (glaciers x 12)
RefLrMonthlyAvg(c, size, n) ==
    LET ids == ChunkIds(c, size, n)
    IN  [def |-> TRUE, ndim |-> 2,
         a |-> [k \in 1..Len(ids) |-> [m \in 1..NumMonths |-> LrAvg(ids[k], m)]]]

\* --------------------------------------------------------------- numpy, csv
\* np.savetxt: a 1-D array is written one value per line
SaveTxt(x) == IF x.ndim = 1 THEN [i \in 1..Len(x.a) |-> <<x.a[i]>>] ELSE x.a

\* np.genfromtxt: the result is squeezed, so a file of one line, or of one
\* column, is read back as a 1-D array
GenFromTxt(lines) ==
    IF Len(lines) = 1 THEN [def |-> TRUE, ndim |-> 1, a |-> lines[1]]
    ELSE IF \A i \in 1..Len(lines) : Len(lines[i]) = 1
         THEN [def |-> TRUE, ndim |-> 1, a |-> [i \in 1..Len(lines) |-> lines[i][1]]]
         ELSE [def |-> TRUE, ndim |-> 2, a |-> lines]

\* ndarray.shape
Shape(x) == IF x.ndim = 1 THEN <<Len(x.a)>> ELSE <<Len(x.a), Len(x.a[1])>>

\* number of elements of an array
Size(x) == IF x.ndim = 1 THEN Len(x.a) ELSE Len(x.a) * Len(x.a[1])

\* The lapse-rate branch of the merge loop for a file that is not the first:
\* returns the new lr_all, or Undefined when the statement raises
\* (IndexError on lr_all.shape[1] of a 1-D lr_all, ValueError on an
\* impossible reshape or on concatenating arrays of different widths).
LrJoin(all, join) ==
    IF all.ndim < 2 THEN Undefined
    ELSE LET cols == Shape(all)[2]
             j2 == IF Shape(join)[1] = cols
                   THEN (IF Size(join) # cols THEN Undefined
                         ELSE [def |-> TRUE, ndim |-> 2, a |-> <<join.a>>])
                   ELSE join
         IN  IF ~j2.def THEN Undefined
             ELSE IF j2.ndim # 2 \/ Shape(j2)[2] # cols THEN Undefined
             ELSE [def |-> TRUE, ndim |-> 2, a |-> all.a \o j2.a]

\* ------------------------------------------------------- output directory
File(kind, role, g, s, c, lines) ==
    [kind |-> kind, role |-> role, gcm |-> g, rcp |-> s, chunk |-> c, lines |-> lines]

WriteFile(d, name, file) == [f \in (DOMAIN d) \cup {name} |-> IF f = name THEN file ELSE d[f]]

\* os.remove left out
RemoveFile_keep(d, name) == d

RemoveFile(d, name) == [f \in (DOMAIN d) \ {name} |-> d[f]]

\* ------------------------------------------------------------ orchestrator
gcm_name(r) == gcm_list[r][gi[r]]

\* __main__: the condition of "Parallel processing"
\* the pool used whenever the switch is on, whatever the population
ParallelMode_anyN(r) == option_parallels[r] # 0
\* if (args.option_parallels != 0) and (N >= 2 * num_simultaneous_processes)
ParallelMode(r) ==
    option_parallels[r] # 0 /\ nglac >= 2 * num_simultaneous_processes[r]

ChunkSet(r) == {list_packed_vars[r][k] : k \in 1..Len(list_packed_vars[r])}

\* the merge does not wait for the last chunk (map_async without get)
AllChunksDone_anyWritten(r) == \E c \in ChunkSet(r) : chunk_state[r][c] = "written"

\* the exception of a chunk is swallowed: a failed chunk counts as finished
AllChunksDone_failedCounts(r) ==
    \A c \in ChunkSet(r) : chunk_state[r][c] \in {"written", "failed"}

\* p.map(main, list_packed_vars) has returned / the serial loop has ended
AllChunksDone(r) == \A c \in ChunkSet(r) : chunk_state[r][c] = "written"

\* __main__ up to the GCM loop: argument parsing, chunk_size, gcm_list
Start(r) ==
    /\ UNCHANGED <<glacVars, fnVars>>
    /\ pc[r] = "start"
    /\ chunk_size' = [chunk_size EXCEPT ![r] = ChunkSize(nglac, num_simultaneous_processes[r])]
    /\ gi' = [gi EXCEPT ![r] = 1]
    /\ pc' = [pc EXCEPT ![r] = "pack"]
    /\ UNCHANGED <<dir, today, nglac, num_simultaneous_processes, option_parallels,
                   rcp_scenario, gcm_list, list_packed_vars, chunk_state, todo,
                   biasadj_list, lr_list, biasadj_all, lr_all, mergeRead, wrote,
                   invocations>>

\* head of the GCM loop: "Pack variables for multiprocessing"
Pack(r) ==
    /\ UNCHANGED <<glacVars, fnVars>>
    /\ pc[r] = "pack"
    /\ LET lpv == Range(0, nglac, chunk_size[r])
       IN  /\ list_packed_vars' = [list_packed_vars EXCEPT ![r] = lpv]
           /\ chunk_state' = [chunk_state EXCEPT
                                ![r] = [c \in {lpv[k] : k \in 1..Len(lpv)} |-> "pending"]]
    /\ mergeRead' = [mergeRead EXCEPT ![r] = {}]
    /\ pc' = [pc EXCEPT ![r] = "run"]
    /\ UNCHANGED <<dir, today, nglac, num_simultaneous_processes, option_parallels,
                   rcp_scenario, gcm_list, gi, chunk_size, todo, biasadj_list, lr_list,
                   biasadj_all, lr_all, wrote, invocations>>

\* a pool worker (or the serial loop) enters main(list_packed_vars[n])
StartChunk(r, c) ==
    /\ UNCHANGED <<glacVars, fnVars>>
    /\ pc[r] = "run"
    /\ c \in ChunkSet(r)
    /\ chunk_state[r][c] = "pending"
    /\ \A c2 \in ChunkSet(r) : c2 < c => chunk_state[r][c2] # "pending"
    /\ IF ParallelMode(r)
       THEN Cardinality({c2 \in ChunkSet(r) : chunk_state[r][c2] = "running"})
                < num_simultaneous_processes[r]
       ELSE \A c2 \in ChunkSet(r) : c2 < c => chunk_state[r][c2] = "written"
    /\ chunk_state' = [chunk_state EXCEPT ![r][c] = "running"]
    /\ UNCHANGED <<dir, today, nglac, num_simultaneous_processes, option_parallels,
                   rcp_scenario, gcm_list, pc, gi, chunk_size, list_packed_vars, todo,
                   biasadj_list, lr_list, biasadj_all, lr_all, mergeRead, wrote,
                   invocations>>

\* main() reaches "EXPORT THE ADJUSTMENT VARIABLES": the chunk table is
\* written under the day strftime returns at that moment (the clock may have
\* passed midnight since it was last read), and the chunk lapse-rate file is
\* written if no file of that name exists
FinishChunk(r, c) ==
    /\ UNCHANGED <<glacVars, fnVars>>
    /\ pc[r] = "run"
    /\ c \in ChunkSet(r)
    /\ chunk_state[r][c] = "running"
    /\ \E day \in today..MaxDay :
        /\ today' = day
        /\ LET g == gcm_name(r)
               s == rcp_scenario[r]
               res == File("res", "worker", g, s, c,
                           BiasAdjRows(c, chunk_size[r], nglac, g, s))
               d1 == WriteFile(dir, output_biasadjparams_fn(g, s, day, c), res)
               lrf == File("lr", "worker", g, s, c,
                           SaveTxt(RefLrMonthlyAvg(c, chunk_size[r], nglac)))
           IN  dir' = IF output_filename_lr(c) \in DOMAIN d1 THEN d1
                      ELSE WriteFile(d1, output_filename_lr(c), lrf)
    /\ chunk_state' = [chunk_state EXCEPT ![r][c] = "written"]
    /\ UNCHANGED <<nglac, num_simultaneous_processes, option_parallels,
                   rcp_scenario, gcm_list, pc, gi, chunk_size, list_packed_vars, todo,
                   biasadj_list, lr_list, biasadj_all, lr_all, mergeRead, wrote,
                   invocations>>

\* main() raises before the export (missing input file, mismatched arrays, ...)
FailChunk(r, c) ==
    /\ UNCHANGED <<glacVars, fnVars>>
    /\ pc[r] = "run"
    /\ c \in ChunkSet(r)
    /\ chunk_state[r][c] = "running"
    /\ chunk_state' = [chunk_state EXCEPT ![r][c] = "failed"]
    /\ UNCHANGED <<dir, today, nglac, num_simultaneous_processes, option_parallels,
                   rcp_scenario, gcm_list, pc, gi, chunk_size, list_packed_vars, todo,
                   biasadj_list, lr_list, biasadj_all, lr_all, mergeRead, wrote,
                   invocations>>

\* the exception caught and the chunks of the GCM packed and run again
Abort_retry(r) ==
    /\ UNCHANGED <<glacVars, fnVars>>
    /\ pc[r] = "run"
    /\ \E c \in ChunkSet(r) : chunk_state[r][c] = "failed"
    /\ pc' = [pc EXCEPT ![r] = "pack"]
    /\ UNCHANGED <<dir, today, nglac, num_simultaneous_processes, option_parallels,
                   rcp_scenario, gcm_list, gi, chunk_size, list_packed_vars, chunk_state,
                   todo, biasadj_list, lr_list, biasadj_all, lr_all, mergeRead, wrote,
                   invocations>>

\* the exception of a chunk propagates out of p.map / out of the serial loop:
\* nothing in __main__ catches it, the script ends
Abort(r) ==
    /\ UNCHANGED <<glacVars, fnVars>>
    /\ pc[r] = "run"
    /\ \E c \in ChunkSet(r) : chunk_state[r][c] = "failed"
    /\ pc' = [pc EXCEPT ![r] = "aborted"]
    /\ UNCHANGED <<dir, today, nglac, num_simultaneous_processes, option_parallels,
                   rcp_scenario, gcm_list, gi, chunk_size, list_packed_vars, chunk_state,
                   todo, biasadj_list, lr_list, biasadj_all, lr_all, mergeRead, wrote,
                   invocations>>

\* "Combine output into single package": os.listdir(output_filepath); only the
\* names that start with one of the two prefixes have any effect in the loop
MergeBegin(r) ==
    /\ UNCHANGED <<glacVars, fnVars>>
    /\ pc[r] = "run"
    /\ AllChunksDone(r)
    /\ todo' = [todo EXCEPT ![r] =
                  {i \in DOMAIN dir :
                      \/ StartsWith(i, output_biasadj_prefix(gcm_name(r), rcp_scenario[r]))
                      \/ StartsWith(i, output_lr_prefix)}]
    /\ biasadj_list' = [biasadj_list EXCEPT ![r] = 0]
    /\ lr_list' = [lr_list EXCEPT ![r] = 0]
    /\ pc' = [pc EXCEPT ![r] = "merge"]
    /\ UNCHANGED <<dir, today, nglac, num_simultaneous_processes, option_parallels,
                   rcp_scenario, gcm_list, gi, chunk_size, list_packed_vars, chunk_state,
                   biasadj_all, lr_all, mergeRead, wrote, invocations>>

\* pd.read_csv(..., index_col=0) of a table written by to_csv
ReadCsv(lines) == [def |-> TRUE, ndim |-> 2, a |-> lines]

\* history record of a file read by the merge of process r
ReadEntry(r, i) == [name |-> i, kind |-> dir[i].kind, role |-> dir[i].role,
                    gcm |-> dir[i].gcm, rcp |-> dir[i].rcp,
                    mgcm |-> gcm_name(r), mrcp |-> rcp_scenario[r]]

\* one iteration of "for i in os.listdir(output_filepath)", in the arbitrary
\* order of the listing; "crashed" is an uncaught exception in the loop
MergeStep(r) ==
    /\ UNCHANGED <<glacVars, fnVars>>
    /\ pc[r] = "merge"
    /\ \E i \in todo[r] :
        /\ todo' = [todo EXCEPT ![r] = todo[r] \ {i}]
        /\ IF i \notin DOMAIN dir
           THEN \* the file was removed since the listing: the read raises
                /\ pc' = [pc EXCEPT ![r] = "crashed"]
                /\ UNCHANGED <<dir, biasadj_list, lr_list, biasadj_all, lr_all, mergeRead>>
           ELSE IF StartsWith(i, output_biasadj_prefix(gcm_name(r), rcp_scenario[r]))
           THEN /\ biasadj_list' = [biasadj_list EXCEPT ![r] = biasadj_list[r] + 1]
                /\ biasadj_all' = [biasadj_all EXCEPT ![r] =
                      IF biasadj_list[r] + 1 = 1 THEN ReadCsv(dir[i].lines)
                      ELSE [def |-> TRUE, ndim |-> 2,
                            a |-> biasadj_all[r].a (+) ReadCsv(dir[i].lines).a]]
                /\ dir' = RemoveFile(dir, i)
                /\ mergeRead' = [mergeRead EXCEPT ![r] = mergeRead[r] \cup {ReadEntry(r, i)}]
                /\ UNCHANGED <<pc, lr_list, lr_all>>
           ELSE LET lr_2join == GenFromTxt(dir[i].lines)
                    joined == IF lr_list[r] + 1 = 1 THEN lr_2join
                              ELSE LrJoin(lr_all[r], lr_2join)
                IN  /\ lr_list' = [lr_list EXCEPT ![r] = lr_list[r] + 1]
                    /\ mergeRead' = [mergeRead EXCEPT ![r] = mergeRead[r] \cup {ReadEntry(r, i)}]
                    /\ IF joined.def
                       THEN /\ lr_all' = [lr_all EXCEPT ![r] = joined]
                            /\ dir' = RemoveFile(dir, i)
                            /\ UNCHANGED pc
                       ELSE /\ pc' = [pc EXCEPT ![r] = "crashed"]
                            /\ UNCHANGED <<dir, lr_all>>
                    /\ UNCHANGED <<biasadj_list, biasadj_all>>
    /\ UNCHANGED <<today, nglac, num_simultaneous_processes, option_parallels,
                   rcp_scenario, gcm_list, gi, chunk_size, list_packed_vars, chunk_state,
                   wrote, invocations>>

\* "Export joined files": biasadj_all.to_csv, then np.savetxt of lr_all if no
\* file of today's name lr_all_fn exists; an unbound biasadj_all or lr_all
\* raises NameError
MergeWrite(r) ==
    /\ UNCHANGED <<glacVars, fnVars>>
    /\ pc[r] = "merge"
    /\ todo[r] = {}
    /\ \E day \in today..MaxDay :
        /\ today' = day
        /\ LET g == gcm_name(r)
               s == rcp_scenario[r]
               d1 == WriteFile(dir, biasadj_all_fn(g, s, day),
                               File("res", "merge", g, s, 0 - 1, biasadj_all[r].a))
           IN  IF ~biasadj_all[r].def
               THEN /\ pc' = [pc EXCEPT ![r] = "crashed"]
                    /\ UNCHANGED <<dir, wrote>>
               ELSE /\ wrote' = [wrote EXCEPT ![r] = wrote[r] \cup {gi[r]}]
                    /\ IF lr_all_fn(day) \in DOMAIN d1
                       THEN /\ dir' = d1
                            /\ pc' = [pc EXCEPT ![r] = "merged"]
                       ELSE IF ~lr_all[r].def
                       THEN /\ dir' = d1
                            /\ pc' = [pc EXCEPT ![r] = "crashed"]
                       ELSE /\ dir' = WriteFile(d1, lr_all_fn(day),
                                         File("lr", "merge", g, s, 0 - 1, SaveTxt(lr_all[r])))
                            /\ pc' = [pc EXCEPT ![r] = "merged"]
    /\ UNCHANGED <<nglac, num_simultaneous_processes, option_parallels,
                   rcp_scenario, gcm_list, gi, chunk_size, list_packed_vars, chunk_state,
                   todo, biasadj_list, lr_list, biasadj_all, lr_all, mergeRead,
                   invocations>>

\* "for gcm_name in gcm_list": next GCM, or the end of the script
NextGcm(r) ==
    /\ UNCHANGED <<glacVars, fnVars>>
    /\ pc[r] = "merged"
    /\ IF gi[r] < Len(gcm_list[r])
       THEN /\ gi' = [gi EXCEPT ![r] = gi[r] + 1]
            /\ pc' = [pc EXCEPT ![r] = "pack"]
       ELSE /\ pc' = [pc EXCEPT ![r] = "done"]
            /\ UNCHANGED gi
    /\ UNCHANGED <<dir, today, nglac, num_simultaneous_processes, option_parallels,
                   rcp_scenario, gcm_list, chunk_size, list_packed_vars, chunk_state,
                   todo, biasadj_list, lr_list, biasadj_all, lr_all, mergeRead, wrote,
                   invocations>>

\* the script is started again with the same arguments on the same
\* output_filepath (a new Python process: no module-level name is bound)
Rerun(r) ==
    /\ UNCHANGED <<glacVars, fnVars>>
    /\ pc[r] \in {"done", "aborted", "crashed"}
    /\ invocations < MaxRuns
    /\ invocations' = invocations + 1
    /\ pc' = [pc EXCEPT ![r] = "start"]
    /\ gi' = [gi EXCEPT ![r] = 0]
    /\ chunk_size' = [chunk_size EXCEPT ![r] = 0]
    /\ list_packed_vars' = [list_packed_vars EXCEPT ![r] = <<>>]
    /\ chunk_state' = [chunk_state EXCEPT ![r] = <<>>]
    /\ todo' = [todo EXCEPT ![r] = {}]
    /\ biasadj_list' = [biasadj_list EXCEPT ![r] = 0]
    /\ lr_list' = [lr_list EXCEPT ![r] = 0]
    /\ biasadj_all' = [biasadj_all EXCEPT ![r] = Undefined]
    /\ lr_all' = [lr_all EXCEPT ![r] = Undefined]
    /\ mergeRead' = [mergeRead EXCEPT ![r] = {}]
    /\ wrote' = [wrote EXCEPT ![r] = {}]
    /\ UNCHANGED <<dir, today, nglac, num_simultaneous_processes, option_parallels,
                   rcp_scenario, gcm_list>>

\* ------------------------------------------- main(): per-glacier computation
\* Temperatures are held in tenths of a degree, elevations in metres, lapse
\* rates in tenths of a degree per metre, degree-day factors in 1e-4 m w.e.;
\* a series has one value per month of a one-year reference period.
DegC(x) == 10 * x
\* A binned precipitation is held in thousandths of the unit of the series,
\* the precipitation gradient in thousandths per metre.
PerMille(x) == 1000 * x

Bins == 1..NumBins
Months == 1..NumMonths

\* elev_bins = main_glac_hyps.columns: bin b is the band at b * binsize metres
elev_bins == [b \in Bins |-> b * binsize]

\* dates_table['daysinmonth'] of the reference period
daysinmonth == <<31, 28, 31, 30, 31, 30, 31, 31, 30, 31, 30, 31>>
\* the same column for a period of several years
DaysInMonth(m) == daysinmonth[((m - 1) % NumMonths) + 1]

\* a monthly series with value w in the cold half of the year and s in the
\* warm half
Series(w, s) == [m \in Months |-> IF m \in 4..9 THEN s ELSE w]

\* rows of ref_temp: a year with a melt season, a year without
RefTempSeries == {Series(-5, 25), Series(-5, -5)}
\* rows of gcm_temp_subset: a GCM that is, at the glacier, as warm as the
\* first reference row, and one that is two degrees colder
GcmTempSeries == {Series(-15, 15), Series(-35, -5)}
\* rows of ref_prec and of gcm_prec_subset; the last GCM row is dry in the
\* cold half of the year
RefPrecSeries == {Series(20, 20)}
GcmPrecSeries == {Series(20, 20), Series(40, 40), Series(0, 20)}
\* rows of ref_lr; gcm_lr is np.tile of ref_lr_monthly_avg, which for a
\* one-year reference period is the same row
LrSeries == {Series(-1, -1)}
\* ref_elev, gcm_elev: elevation of the nearest climate grid cell
RefElevs == {elev_bins[1]}
GcmElevs == {elev_bins[1] + binsize}
\* rows of main_glac_hyps and main_glac_icethickness, <<area, thickness>> per
\* bin: a glacier has area in the bins lo..hi (in none if lo > hi) and ice of
\* thickness h there
Glacier(lo, hi, h) ==
    [b \in Bins |-> IF b \in lo..hi THEN <<1, h>> ELSE <<0, 0>>]
Geometries == {Glacier(lo, hi, h) : lo \in Bins, hi \in Bins, h \in {0, 5}}

\* row of main_glac_modelparams (model parameter table, modelparams_colnames)
modelparameters ==
    [precfactor |-> 1, precgrad |-> 0, ddfsnow |-> 41, ddfice |-> 59,
     tempsnow |-> DegC(1), tempchange |-> 0]

\* glacier_rgi_table.loc[option_elev_ref_downscale], 'Zmed'
Zmed == elev_bins[1]

\* candidate points the SLSQP minimiser can return for the temperature offset
Offsets == {DegC(-2), 0, DegC(2)}
\* a precipitation factor is the quotient num / den
Ratio(n, d) == [num |-> n, den |-> d]
\* candidate points the stage-2 minimiser can return for the factor
PrecAdjs == {Ratio(1, 1), Ratio(1, 2)}

\* value of a local array that is not bound yet in this loop iteration
NoField == <<>>

Max(S) == CHOOSE x \in S : \A y \in S : y <= x
Min(S) == CHOOSE x \in S : \A y \in S : x <= y
Abs(x) == IF x < 0 THEN -x ELSE x

RECURSIVE SumSet(_, _)
SumSet(f, S) ==
    IF S = {} THEN 0
    ELSE LET x == CHOOSE y \in S : TRUE IN f[x] + SumSet(f, S \ {x})

\* sum of the first n values of a row
RECURSIVE SumSeq(_, _)
SumSeq(f, n) == IF n = 0 THEN 0 ELSE f[n] + SumSeq(f, n - 1)

\* (field * glacier_area_t0[:,np.newaxis]).sum()
Total(field, area) ==
    SumSeq([b \in Bins |-> area[b] * SumSeq(field[b], Cardinality(DOMAIN field[b]))],
           NumBins)

\* the guard written with >= in place of >
HasIce_nonneg(icethickness) == Max({icethickness[b] : b \in Bins}) >= 0
\* if icethickness_t0.max() > 0: the whole loop body is under this guard
HasIce(icethickness) == Max({icethickness[b] : b \in Bins}) > 0

\* glac_idx_t0 = glacier_area_t0.nonzero()[0]
glac_idx_t0(area) == {b \in DOMAIN area : area[b] # 0}

\* massbalance.surfacetypebinsinitial: 0 off-glacier, 1 ice below the median
\* elevation, 2 snow at and above it
surfacetypebinsinitial(area) ==
    [b \in Bins |-> IF area[b] = 0 THEN 0
                    ELSE IF elev_bins[b] < Zmed THEN 1 ELSE 2]

\* massbalance.surfacetypeDDFdict(modelparameters, option_DDF_firn=0)
surfacetypeDDFdict(mp) ==
    (1 :> mp.ddfice) @@ (2 :> mp.ddfsnow) @@ (3 :> mp.ddfsnow)

\* surfacetype_ddf: zeros, then the factor of each surface type in the dict
surfacetype_ddf(area) ==
    LET st == surfacetypebinsinitial(area)
        dict == surfacetypeDDFdict(modelparameters)
    IN  [b \in Bins |-> IF st[b] \in DOMAIN dict THEN dict[st[b]] ELSE 0]

\* T_bin = T_gcm + lr_gcm * (z_ref - z_gcm) + lr_glac * (z_bin - z_ref) + tempchange
TempToBins(temp, lrgcm, lrglac, elev, mp) ==
    [b \in Bins |-> [m \in DOMAIN temp |->
        temp[m] + lrgcm[m] * (Zmed - elev) + lrglac[m] * (elev_bins[b] - Zmed)
        + mp.tempchange]]

\* field[glacier_area_t0==0,:] = 0
RemoveOffGlacier(field, area) ==
    [b \in Bins |-> [m \in DOMAIN field[b] |->
        IF area[b] = 0 THEN 0 ELSE field[b][m]]]

\* the scalar subtracted
AddOffset_minus(field, x) ==
    [b \in Bins |-> [m \in DOMAIN field[b] |-> field[b][m] - x]]
\* glac_bin_temp_gcm + bias_adj: the scalar is broadcast over all bins
AddOffset(field, x) ==
    [b \in Bins |-> [m \in DOMAIN field[b] |-> field[b][m] + x]]

\* the melt energy taken in absolute value in place of cut off at 0
MeltField_abs(temp, ddf) ==
    [b \in Bins |-> [m \in DOMAIN temp[b] |->
        Abs(temp[b][m] * DaysInMonth(m)) * ddf[b]]]
\* melt = max(T * daysinmonth, 0) * surfacetype_ddf[:,np.newaxis]
MeltField(temp, ddf) ==
    [b \in Bins |-> [m \in DOMAIN temp[b] |->
        (IF temp[b][m] * DaysInMonth(m) < 0 THEN 0
         ELSE temp[b][m] * DaysInMonth(m)) * ddf[b]]]

\* melt volume total: (melt * glacier_area_t0[:,np.newaxis]).sum()
MeltVolOn(temp, ddf, area) == Total(MeltField(temp, ddf), area)
MeltVol(temp, area) == MeltVolOn(temp, surfacetype_ddf(area), area)

\* the melt of the GCM climate taken without the offset
objective_noOffset(x, melt_vol_ref, temp_gcm, area) ==
    Abs(melt_vol_ref - MeltVol(temp_gcm, area))
\* objective(bias_adj_glac) of stage 1, with melt_vol_ref of line 255
objective_at(x, melt_vol_ref, temp_gcm, area) ==
    Abs(melt_vol_ref - MeltVol(AddOffset(temp_gcm, x), area))

\* melt_vol_ref and objective(bias_adj_glac) of stage 1
objective(x, temp_ref, temp_gcm, area) ==
    objective_at(x, MeltVol(temp_ref, area), temp_gcm, area)

\* the points of X where obj is least
ArgMin(obj, X) ==
    LET graph == {<<x, obj[x]>> : x \in X}
        least == Min({p[2] : p \in graph})
    IN  {p[1] : p \in {q \in graph : q[2] = least}}

\* P_bin = P_gcm * prec_factor * (1 + prec_grad * (z_bin - z_ref)) over the
\* bins of the elevation columns elev, with reference elevation zref
PrecToBinsOn(prec, mp, elev, zref) ==
    [b \in DOMAIN elev |-> [m \in Months |->
        prec[m] * mp.precfactor * (PerMille(1) + mp.precgrad * (elev[b] - zref))]]

PrecToBins(prec, mp) == PrecToBinsOn(prec, mp, elev_bins, Zmed)

\* indices of the upper 25%:
\* glac_idx_t0[(glac_idx_t0 - glac_idx_t0[0] + 1) / glac_idx_t0.shape[0] * 100 > 75]
glac_idx_upper25(area) ==
    LET idx == glac_idx_t0(area)
    IN  {b \in idx : (b - Min(idx) + 1) * 100 > 75 * Cardinality(idx)}

\* 1000 * exp(-n/d) for n/d in [0, 1], in steps of a quarter; 0/0 is nan
NaN == "nan"
ExpNeg(n, d) ==
    IF d = 0 THEN NaN ELSE <<1000, 779, 607, 472, 368>>[((4 * n) \div d) + 1]

\* the upper 25% set to the value of their lowest bin, decayed exponentially
\* with the elevation above it
PrecDecay(precsnow, area, elev) ==
    LET up == glac_idx_upper25(area)
        u0 == Min(up)
        u1 == Max(up)
    IN  [b \in DOMAIN area |-> [m \in Months |->
            IF b \in up
            THEN (precsnow[u0][m] *
                  ExpNeg(elev[b] - elev[u0], elev[u1] - elev[u0])) \div 1000
            ELSE precsnow[b][m]]]

\* the decay without the 87.5% floor after it
PrecLimitOn_noFloor(precsnow, area, elev) ==
    LET idx == glac_idx_t0(area)
    IN  IF elev[Max(idx)] - elev[Min(idx)] > 1000
        THEN PrecDecay(precsnow, area, elev)
        ELSE precsnow

\* option_preclimit == 1: exponential decay over the upper 25% of a glacier
\* whose elevation range exceeds 1000 m, then not less than 87.5% of the
\* maximum elsewhere on the glacier
PrecLimitOn(precsnow, area, elev) ==
    LET idx == glac_idx_t0(area)
        up == glac_idx_upper25(area)
        decayed == PrecDecay(precsnow, area, elev)
        mx == [m \in Months |-> Max({decayed[b][m] : b \in idx})]
    IN  IF elev[Max(idx)] - elev[Min(idx)] > 1000
        THEN [b \in DOMAIN area |-> [m \in Months |->
                 IF b \in up /\ 8 * decayed[b][m] < 7 * mx[m] /\ decayed[b][m] # 0
                 THEN (7 * mx[m]) \div 8
                 ELSE decayed[b][m]]]
        ELSE precsnow

PrecLimit(precsnow, area) == PrecLimitOn(precsnow, area, elev_bins)

\* option_accumulation == 2: liquid part of the precipitation P of a bin and
\* month at temperature T
Rain(T, P, mp) ==
    IF T <= mp.tempsnow - DegC(1) THEN 0
    ELSE IF T > mp.tempsnow + DegC(1) THEN P
    ELSE ((DegC(1) + (T - mp.tempsnow)) * P) \div (2 * DegC(1))

\* the linear relationship alone, without the overrides outside the ramp
Snow_noOverride(T, P, mp) ==
    P - ((DegC(1) + (T - mp.tempsnow)) * P) \div (2 * DegC(1))
\* option_accumulation == 2: solid part
Snow(T, P, mp) ==
    IF T <= mp.tempsnow - DegC(1) THEN P
    ELSE IF T > mp.tempsnow + DegC(1) THEN 0
    ELSE P - Rain(T, P, mp)

\* glac_bin_prec_* and glac_bin_acc_* with the off-glacier values removed
PrecField(temp, precsnow, area, mp) ==
    RemoveOffGlacier([b \in Bins |-> [m \in Months |->
                         Rain(temp[b][m], precsnow[b][m], mp)]], area)
AccField(temp, precsnow, area, mp) ==
    RemoveOffGlacier([b \in Bins |-> [m \in Months |->
                         Snow(temp[b][m], precsnow[b][m], mp)]], area)

\* main_glac_bias_adj: np.zeros, one row per glacier of the chunk
ZeroRow == [temp_adj |-> 0, prec_adj |-> Ratio(0, 1)]

\* the arrays of one loop iteration dropped: each is bound again before it is
\* read in the next iteration
LocalsUnbound ==
    /\ glacier_ref_prec' = NoField
    /\ glacier_gcm_prec' = NoField
    /\ glac_bin_temp_ref' = NoField
    /\ glac_bin_temp_gcm' = NoField
    /\ glac_bin_temp_gcm_adj' = NoField
    /\ glac_bin_prec_ref' = NoField
    /\ glac_bin_prec_gcm' = NoField
    /\ glac_bin_acc_ref' = NoField
    /\ glac_bin_acc_gcm' = NoField
    /\ bias_adj_temp_opt' = NoField
    /\ bias_adj_params' = NoField

\* head of `for glac in range(main_glac_rgi.shape[0])`: the glacier's rows of
\* the hypsometry, thickness and climate tables are read; a glacier without
\* ice is passed over, for the others the temperature is downscaled to the
\* bins and the off-glacier values removed
GlacierBegin ==
    /\ gpc = "loop"
    /\ glac < nrows
    /\ \E g \in Geometries, ref_temp \in RefTempSeries, gcm_temp \in GcmTempSeries,
          ref_prec \in RefPrecSeries, gcm_prec \in GcmPrecSeries,
          lr \in LrSeries, ref_elev \in RefElevs, gcm_elev \in GcmElevs :
          LET area == [b \in Bins |-> g[b][1]]
              thick == [b \in Bins |-> g[b][2]]
          IN  /\ glacier_area_t0' = area
              /\ icethickness_t0' = thick
              /\ icethickness_max' =
                     Append(icethickness_max, Max({thick[b] : b \in Bins}))
              /\ IF HasIce(thick)
                 THEN /\ glacier_ref_prec' = ref_prec
                      /\ glacier_gcm_prec' = gcm_prec
                      /\ glac_bin_temp_ref' =
                             RemoveOffGlacier(
                                 TempToBins(ref_temp, lr, lr, ref_elev, modelparameters),
                                 area)
                      /\ glac_bin_temp_gcm' =
                             RemoveOffGlacier(
                                 TempToBins(gcm_temp, lr, lr, gcm_elev, modelparameters),
                                 area)
                      /\ gpc' = "stage1"
                      /\ UNCHANGED glac
                 ELSE /\ glac' = glac + 1
                      /\ UNCHANGED <<gpc, glacier_ref_prec, glacier_gcm_prec,
                                     glac_bin_temp_ref, glac_bin_temp_gcm>>
    /\ UNCHANGED <<nrows, glac_bin_temp_gcm_adj, glac_bin_prec_ref, glac_bin_prec_gcm,
                   glac_bin_acc_ref, glac_bin_acc_gcm, bias_adj_temp_opt,
                   bias_adj_params, main_glac_bias_adj, minimize_calls,
                   runmassbalance_calls>>
    /\ UNCHANGED bias_adj_params_opt_raw
    /\ UNCHANGED <<batchVars, fnVars>>

\* stage 1: minimize(objective, 0, method='SLSQP'); the point the minimiser
\* returns is used whether or not it reports success; a successful run
\* returns a point where the objective is least
Stage1 ==
    /\ gpc = "stage1"
    /\ LET obj == [x \in Offsets |->
                      objective(x, glac_bin_temp_ref, glac_bin_temp_gcm,
                                glacier_area_t0)]
       IN  \E success \in BOOLEAN :
           \E x \in (IF success THEN ArgMin(obj, Offsets) ELSE Offsets) :
              /\ bias_adj_temp_opt' = [x |-> x, success |-> success]
              /\ glac_bin_temp_gcm_adj' = AddOffset(glac_bin_temp_gcm, x)
    /\ minimize_calls' = [minimize_calls EXCEPT ![glac + 1] = @ + 1]
    /\ gpc' = "stage1b"
    /\ UNCHANGED <<nrows, glac, glacier_area_t0, icethickness_t0, glacier_ref_prec,
                   glacier_gcm_prec, glac_bin_temp_ref, glac_bin_temp_gcm,
                   glac_bin_prec_ref, glac_bin_prec_gcm, glac_bin_acc_ref,
                   glac_bin_acc_gcm, bias_adj_params, main_glac_bias_adj,
                   runmassbalance_calls, icethickness_max>>
    /\ UNCHANGED bias_adj_params_opt_raw
    /\ UNCHANGED <<batchVars, fnVars>>

\* stage 1b with the GCM climate separated at the unshifted temperature
Stage1b_unshifted ==
    /\ gpc = "stage1b"
    /\ LET area == glacier_area_t0
           precsnow_ref == PrecLimit(PrecToBins(glacier_ref_prec, modelparameters), area)
           precsnow_gcm == PrecLimit(PrecToBins(glacier_gcm_prec, modelparameters), area)
           acc_ref == AccField(glac_bin_temp_ref, precsnow_ref, area, modelparameters)
           acc_gcm == AccField(glac_bin_temp_gcm, precsnow_gcm, area, modelparameters)
       IN  /\ glac_bin_prec_ref' =
                  PrecField(glac_bin_temp_ref, precsnow_ref, area, modelparameters)
           /\ glac_bin_prec_gcm' =
                  PrecField(glac_bin_temp_gcm, precsnow_gcm, area, modelparameters)
           /\ glac_bin_acc_ref' = acc_ref
           /\ glac_bin_acc_gcm' = acc_gcm
           /\ bias_adj_params' =
                  <<bias_adj_temp_opt.x,
                    Ratio(Total(acc_ref, area), Total(acc_gcm, area))>>
    /\ gpc' = "stage2"
    /\ UNCHANGED <<nrows, glac, glacier_area_t0, icethickness_t0, glacier_ref_prec,
                   glacier_gcm_prec, glac_bin_temp_ref, glac_bin_temp_gcm,
                   glac_bin_temp_gcm_adj, bias_adj_temp_opt, main_glac_bias_adj,
                   minimize_calls, runmassbalance_calls, icethickness_max>>
    /\ UNCHANGED bias_adj_params_opt_raw
    /\ UNCHANGED <<batchVars, fnVars>>

\* stage 1b: precipitation downscaled to the bins, limited, separated into
\* liquid and solid with the adjusted GCM temperature, off-glacier values
\* removed; the precipitation factor starts from the quotient of the
\* area-weighted accumulations
Stage1b ==
    /\ gpc = "stage1b"
    /\ LET area == glacier_area_t0
           precsnow_ref == PrecLimit(PrecToBins(glacier_ref_prec, modelparameters), area)
           precsnow_gcm == PrecLimit(PrecToBins(glacier_gcm_prec, modelparameters), area)
           acc_ref == AccField(glac_bin_temp_ref, precsnow_ref, area, modelparameters)
           acc_gcm == AccField(glac_bin_temp_gcm_adj, precsnow_gcm, area, modelparameters)
       IN  /\ glac_bin_prec_ref' =
                  PrecField(glac_bin_temp_ref, precsnow_ref, area, modelparameters)
           /\ glac_bin_prec_gcm' =
                  PrecField(glac_bin_temp_gcm_adj, precsnow_gcm, area, modelparameters)
           /\ glac_bin_acc_ref' = acc_ref
           /\ glac_bin_acc_gcm' = acc_gcm
           /\ bias_adj_params' =
                  <<bias_adj_temp_opt.x,
                    Ratio(Total(acc_ref, area), Total(acc_gcm, area))>>
    /\ gpc' = "stage2"
    /\ UNCHANGED <<nrows, glac, glacier_area_t0, icethickness_t0, glacier_ref_prec,
                   glacier_gcm_prec, glac_bin_temp_ref, glac_bin_temp_gcm,
                   glac_bin_temp_gcm_adj, bias_adj_temp_opt, main_glac_bias_adj,
                   minimize_calls, runmassbalance_calls, icethickness_max>>
    /\ UNCHANGED bias_adj_params_opt_raw
    /\ UNCHANGED <<batchVars, fnVars>>

\* constraint_temp_prec(bias_adj_params), times the denominator of the
\* precipitation factor: -1 * (x[0] * (x[1] - 1))
constraint_temp_prec(x0, x1) == -1 * (x0 * (x1.num - x1.den))

\* the points a run of SLSQP that reports success can return: the
\* inequality constraint is non-negative there
Feasible == {x \in Offsets \X PrecAdjs : constraint_temp_prec(x[1], x[2]) >= 0}

\* the returned point recorded only after a run that reports success
RecordRow_onSuccess(rows, i, res) ==
    IF res.success
    THEN [rows EXCEPT ![i] = [temp_adj |-> res.x[1], prec_adj |-> res.x[2]]]
    ELSE rows
\* main_glac_bias_adj.loc[glac, ['temp_adj', 'prec_adj']] = bias_adj_params_opt
RecordRow(rows, i, res) ==
    [rows EXCEPT ![i] = [temp_adj |-> res.x[1], prec_adj |-> res.x[2]]]

\* stage 2: minimize(objective_2, bias_adj_params, constraints=cons); every
\* evaluation of objective_2 runs the mass balance twice; the returned point
\* bias_adj_params_opt_raw.x is recorded in the glacier's row whether or not
\* the run reports success.  The binned arrays and the start point are not
\* read after this call; the result object is not read after the output
\* columns are recorded.
Stage2 ==
    /\ gpc = "stage2"
    /\ \E success \in BOOLEAN :
       \E x \in (IF success THEN Feasible ELSE Offsets \X PrecAdjs) :
          /\ bias_adj_params_opt_raw' = [x |-> x, success |-> success]
          /\ main_glac_bias_adj' =
                 RecordRow(main_glac_bias_adj, glac + 1,
                           [x |-> x, success |-> success])
    /\ minimize_calls' = [minimize_calls EXCEPT ![glac + 1] = @ + 1]
    /\ runmassbalance_calls' = [runmassbalance_calls EXCEPT ![glac + 1] = @ + 2]
    /\ gpc' = "diag"
    /\ LocalsUnbound
    /\ UNCHANGED <<nrows, glac, glacier_area_t0, icethickness_t0, icethickness_max>>
    /\ UNCHANGED <<batchVars, fnVars>>

\* mass balances of the reference and of the adjusted GCM climate computed
\* for the output columns; end of the loop body
Diagnostics ==
    /\ gpc = "diag"
    /\ runmassbalance_calls' = [runmassbalance_calls EXCEPT ![glac + 1] = @ + 2]
    /\ glac' = glac + 1
    /\ gpc' = "loop"
    /\ UNCHANGED <<nrows, glacier_area_t0, icethickness_t0, glacier_ref_prec,
                   glacier_gcm_prec, glac_bin_temp_ref, glac_bin_temp_gcm,
                   glac_bin_temp_gcm_adj, glac_bin_prec_ref, glac_bin_prec_gcm,
                   glac_bin_acc_ref, glac_bin_acc_gcm, bias_adj_temp_opt,
                   bias_adj_params, main_glac_bias_adj, minimize_calls,
                   icethickness_max>>
    /\ bias_adj_params_opt_raw' = NoField
    /\ UNCHANGED <<batchVars, fnVars>>

\* the loop is over: main_glac_bias_adj.to_csv
Export ==
    /\ gpc = "loop"
    /\ glac = nrows
    /\ gpc' = "exported"
    /\ UNCHANGED <<nrows, glac, glacier_area_t0, icethickness_t0, glacier_ref_prec,
                   glacier_gcm_prec, glac_bin_temp_ref, glac_bin_temp_gcm,
                   glac_bin_temp_gcm_adj, glac_bin_prec_ref, glac_bin_prec_gcm,
                   glac_bin_acc_ref, glac_bin_acc_gcm, bias_adj_temp_opt,
                   bias_adj_params, main_glac_bias_adj, minimize_calls,
                   runmassbalance_calls, icethickness_max>>
    /\ UNCHANGED bias_adj_params_opt_raw
    /\ UNCHANGED <<batchVars, fnVars>>

\* main() before its glacier loop; no glacier loop in the orchestrator model
GlacStart(n) ==
    /\ gpc = (IF n = 0 THEN "off" ELSE "loop")
    /\ nrows = n
    /\ glac = 0
    /\ glacier_area_t0 = NoField
    /\ icethickness_t0 = NoField
    /\ glacier_ref_prec = NoField
    /\ glacier_gcm_prec = NoField
    /\ glac_bin_temp_ref = NoField
    /\ glac_bin_temp_gcm = NoField
    /\ glac_bin_temp_gcm_adj = NoField
    /\ glac_bin_prec_ref = NoField
    /\ glac_bin_prec_gcm = NoField
    /\ glac_bin_acc_ref = NoField
    /\ glac_bin_acc_gcm = NoField
    /\ bias_adj_temp_opt = NoField
    /\ bias_adj_params = NoField
    /\ bias_adj_params_opt_raw = NoField
    /\ main_glac_bias_adj = [i \in 1..n |-> ZeroRow]
    /\ minimize_calls = [i \in 1..n |-> 0]
    /\ runmassbalance_calls = [i \in 1..n |-> 0]
    /\ icethickness_max = <<>>

\* --------------------------------------- functions of main() on their own
\* no function is applied on its own
FnOff ==
    /\ fn = "off"
    /\ fn_args = <<>>
    /\ fn_result = NoField

\* columns of a hypsometry table of WideBins bins
WideElev == [b \in 1..WideBins |-> b * binsize]

\* row of main_glac_hyps of a glacier with area in the bins lo..hi, the bin
\* hole excepted
WideArea(lo, hi, hole) ==
    [b \in 1..WideBins |-> IF b \in lo..hi /\ b # hole THEN 1 ELSE 0]

\* glaciers of more than 1000 m of elevation range, with and without a
\* bin without area inside, and a glacier of less
WideAreas ==
    {WideArea(lo, hi, hole) : lo \in {1, 2},
                              hi \in {WideBins \div 2, WideBins - 1, WideBins},
                              hole \in {0, WideBins \div 3, WideBins - 10}}

\* rows of ref_prec / gcm_prec_subset: dry and wet half years
WidePrecSeries == {Series(w, s) : w \in {0, 800}, s \in {0, 800}}

\* rows of the model parameter table: without and with a precipitation
\* gradient
WideModelParameters ==
    {[modelparameters EXCEPT !.precgrad = g] : g \in {0, 1}}

\* option_prec2bins and option_preclimit applied to one glacier: lines 275-309
\* for one of the two climates
InitPrecLimit ==
    /\ fn = "preclimit"
    /\ \E area \in WideAreas, prec \in WidePrecSeries, mp \in WideModelParameters :
          fn_args = [glacier_area_t0 |-> area, elev_bins |-> WideElev,
                     Zmed |-> WideElev[WideBins \div 2],
                     glacier_prec |-> prec, modelparameters |-> mp]
    /\ fn_result = NoField

ApplyPrecLimit ==
    /\ fn = "preclimit"
    /\ fn_result = NoField
    /\ fn_result' =
           PrecLimitOn(PrecToBinsOn(fn_args.glacier_prec, fn_args.modelparameters,
                                    fn_args.elev_bins, fn_args.Zmed),
                       fn_args.glacier_area_t0, fn_args.elev_bins)
    /\ UNCHANGED <<fn, fn_args>>
    /\ UNCHANGED <<batchVars, glacVars>>

\* ------------------------------------------------------------ specifications
ProcInit ==
    /\ gi = [r \in Procs |-> 0]
    /\ chunk_size = [r \in Procs |-> 0]
    /\ list_packed_vars = [r \in Procs |-> <<>>]
    /\ chunk_state = [r \in Procs |-> <<>>]
    /\ todo = [r \in Procs |-> {}]
    /\ biasadj_list = [r \in Procs |-> 0]
    /\ lr_list = [r \in Procs |-> 0]
    /\ biasadj_all = [r \in Procs |-> Undefined]
    /\ lr_all = [r \in Procs |-> Undefined]
    /\ mergeRead = [r \in Procs |-> {}]
    /\ wrote = [r \in Procs |-> {}]

\* one script process, started on an empty output directory; it may be
\* started again later on the directory it left behind
Init ==
    /\ dir = <<>>
    /\ today = 1
    /\ nglac \in 1..MaxN
    /\ \E w \in 1..MaxW : num_simultaneous_processes = [r \in Procs |-> w]
    /\ \E o \in {0, 1} : option_parallels = [r \in Procs |-> o]
    /\ rcp_scenario = [r \in Procs |-> "rcp26"]
    /\ \E n \in 1..MaxGcms : gcm_list = [r \in Procs |-> SubSeq(AllGcms, 1, n)]
    /\ pc = [r \in Procs |-> IF r = 1 THEN "start" ELSE "off"]
    /\ invocations = 1
    /\ ProcInit
    /\ GlacStart(0)
    /\ FnOff

ProcNext(r) ==
    \/ Start(r)
    \/ Pack(r)
    \/ \E c \in ChunkSet(r) : StartChunk(r, c)
    \/ \E c \in ChunkSet(r) : FinishChunk(r, c)
    \/ \E c \in ChunkSet(r) : FailChunk(r, c)
    \/ Abort(r)
    \/ MergeBegin(r)
    \/ MergeStep(r)
    \/ MergeWrite(r)
    \/ NextGcm(r)

\* one invocation of the script on an empty output directory
Next == \E r \in Procs : ProcNext(r)

Spec == Init /\ [][Next]_vars

\* the same invocation under a scheduler that keeps running it: the
\* orchestrator is a sequential script and p.map blocks until the pool has
\* run every chunk, so a step that stays possible is taken
SpecFair == Init /\ [][Next]_vars /\ WF_vars(Next)

\* the script run to its end and started again on the directory it left
InitRerun ==
    /\ dir = <<>>
    /\ today = 1
    /\ nglac \in {1, 2, 3}
    /\ \E w \in {1, 2} : num_simultaneous_processes = [r \in Procs |-> w]
    /\ option_parallels = [r \in Procs |-> 0]
    /\ rcp_scenario = [r \in Procs |-> "rcp26"]
    /\ gcm_list = [r \in Procs |-> <<"gcmA">>]
    /\ pc = [r \in Procs |-> IF r = 1 THEN "start" ELSE "off"]
    /\ invocations = 1
    /\ ProcInit
    /\ GlacStart(0)
    /\ FnOff

NextRerun ==
    \/ \E r \in Procs : ProcNext(r)
    \/ \E r \in Procs : Rerun(r)

SpecRerun == InitRerun /\ [][NextRerun]_vars

\* two script processes at the same time on one output directory, started
\* with the gcm files of two scenarios
InitConc ==
    /\ dir = <<>>
    /\ today = MaxDay
    /\ nglac \in {1, 2, 3}
    /\ \E w \in {1, 2} : num_simultaneous_processes = [r \in Procs |-> w]
    /\ option_parallels = [r \in Procs |-> 0]
    /\ rcp_scenario = [r \in Procs |-> IF r = 1 THEN "rcp26" ELSE "rcp45"]
    /\ \E g \in {"gcmA", "gcmB"} :
          gcm_list = [r \in Procs |-> IF r = 1 THEN <<"gcmA">> ELSE <<g>>]
    /\ pc = [r \in Procs |-> "start"]
    /\ invocations = 1
    /\ ProcInit
    /\ GlacStart(0)
    /\ FnOff

NextConc == \E r \in Procs : ProcNext(r)

SpecConc == InitConc /\ [][NextConc]_vars

\* main() on one chunk: the glacier loop and the export of the chunk's rows
InitGlac ==
    /\ dir = <<>>
    /\ today = 1
    /\ nglac = 1
    /\ num_simultaneous_processes = [r \in Procs |-> 1]
    /\ option_parallels = [r \in Procs |-> 0]
    /\ rcp_scenario = [r \in Procs |-> "rcp26"]
    /\ gcm_list = [r \in Procs |-> <<"gcmA">>]
    /\ pc = [r \in Procs |-> "off"]
    /\ invocations = 1
    /\ ProcInit
    /\ \E n \in 1..MaxChunk : GlacStart(n)
    /\ FnOff

NextGlac ==
    \/ GlacierBegin
    \/ Stage1
    \/ Stage1b
    \/ Stage2
    \/ Diagnostics
    \/ Export

SpecGlac == InitGlac /\ [][NextGlac]_vars

\* the position of main() in its loop moves on: every step of NextGlac
\* changes <<gpc, glac>>, and in every position but the last the loop has a
\* statement to run
Advance ==
    /\ gpc # "exported"
    /\ \E p \in {"loop", "stage1", "stage1b", "stage2", "diag", "exported"},
          k \in 0..nrows :
          /\ gpc' = p
          /\ glac' = k
          /\ <<p, k>> # <<gpc, glac>>

\* main() is one sequential loop: a statement that can run does run
SpecGlacFair == InitGlac /\ [][NextGlac]_vars /\ WF_<<gpc, glac>>(Advance)

\* binned temperature fields, degree-day factors and areas of each bin
MeltTempFields == [Bins -> {Series(-5, 25), Series(-35, -5), Series(5, 5)}]
MeltDdfs == [Bins -> {0, modelparameters.ddfsnow}]
MeltAreas == [Bins -> {0, 2}]
\* pairs of offsets a <= b
OffsetPairs == {p \in Offsets \X Offsets : p[1] <= p[2]}

\* the melt volume of objective() at two offsets: lines 258-262
InitMelt ==
    /\ fn = "melt"
    /\ \E temp \in MeltTempFields, ddf \in MeltDdfs, area \in MeltAreas,
          p \in OffsetPairs :
          fn_args = [glac_bin_temp_gcm |-> temp, surfacetype_ddf |-> ddf,
                     glacier_area_t0 |-> area, a |-> p[1], b |-> p[2]]
    /\ fn_result = NoField

ApplyMelt ==
    /\ fn = "melt"
    /\ fn_result = NoField
    /\ fn_result' =
           [x \in {fn_args.a, fn_args.b} |->
               MeltVolOn(AddOffset(fn_args.glac_bin_temp_gcm, x),
                         fn_args.surfacetype_ddf, fn_args.glacier_area_t0)]
    /\ UNCHANGED <<fn, fn_args>>
    /\ UNCHANGED <<batchVars, glacVars>>

\* massbalance.runmassbalance(...) followed by the sum per year and the mean
\* over the years of glac_wide_massbaltotal: the mass balance of a
\* degree-day model, accumulation less melt, in 1e-6 m w.e. times the
\* glacier's area
mb_mwea(temp, prec, elev, lr, area, mp) ==
    LET bin_temp == RemoveOffGlacier(TempToBins(temp, lr, lr, elev, mp), area)
        precsnow == PrecLimit(PrecToBins(prec, mp), area)
    IN  Total(AccField(bin_temp, precsnow, area, mp), area)
            - 10 * MeltVol(bin_temp, area)

\* glacier_gcm_temp + bias_adj_params[0], glacier_gcm_prec * bias_adj_params[1]
TempAdj(temp, x0) == [m \in DOMAIN temp |-> temp[m] + x0]
PrecAdj(prec, x1) == [m \in DOMAIN prec |-> (prec[m] * x1.num) \div x1.den]

\* objective_2(bias_adj_params)
objective_2(x, a) ==
    Abs(mb_mwea(a.glacier_ref_temp, a.glacier_ref_prec, a.glacier_ref_elev,
                a.glacier_ref_lr, a.glacier_area_t0, modelparameters)
        - mb_mwea(TempAdj(a.glacier_gcm_temp, x[1]), PrecAdj(a.glacier_gcm_prec, x[2]),
                  a.glacier_gcm_elev, a.glacier_gcm_lr, a.glacier_area_t0,
                  modelparameters))

\* one glacier with ice and its rows of the climate tables: lines 201-227
InitStage2 ==
    /\ fn = "stage2"
    /\ \E g \in Geometries, ref_temp \in RefTempSeries, gcm_temp \in GcmTempSeries,
          ref_prec \in RefPrecSeries, gcm_prec \in GcmPrecSeries,
          lr \in LrSeries, ref_elev \in RefElevs, gcm_elev \in GcmElevs :
          /\ HasIce([b \in Bins |-> g[b][2]])
          /\ fn_args = [glacier_area_t0 |-> [b \in Bins |-> g[b][1]],
                        glacier_ref_temp |-> ref_temp, glacier_ref_prec |-> ref_prec,
                        glacier_ref_elev |-> ref_elev, glacier_ref_lr |-> lr,
                        glacier_gcm_temp |-> gcm_temp, glacier_gcm_prec |-> gcm_prec,
                        glacier_gcm_elev |-> gcm_elev, glacier_gcm_lr |-> lr]
    /\ fn_result = NoField

\* stage 2 and the output columns of one glacier, lines 356-470: the point
\* SLSQP returns is recorded whether or not the run reports success; a run
\* that reports success returns a feasible point where objective_2 is least;
\* the mass balances of the reference climate and of the GCM climate with
\* the recorded pair applied are recorded next to it
ApplyStage2 ==
    /\ fn = "stage2"
    /\ fn_result = NoField
    /\ LET obj == [x \in Feasible |-> objective_2(x, fn_args)]
       IN  \E success \in BOOLEAN :
           \E x \in (IF success THEN ArgMin(obj, Feasible) ELSE Offsets \X PrecAdjs) :
              fn_result' =
                  [success |-> success, temp_adj |-> x[1], prec_adj |-> x[2],
                   ref_mb_mwea |->
                       mb_mwea(fn_args.glacier_ref_temp, fn_args.glacier_ref_prec,
                               fn_args.glacier_ref_elev, fn_args.glacier_ref_lr,
                               fn_args.glacier_area_t0, modelparameters),
                   gcm_mb_mwea |->
                       mb_mwea(TempAdj(fn_args.glacier_gcm_temp, x[1]),
                               PrecAdj(fn_args.glacier_gcm_prec, x[2]),
                               fn_args.glacier_gcm_elev, fn_args.glacier_gcm_lr,
                               fn_args.glacier_area_t0, modelparameters)]
    /\ UNCHANGED <<fn, fn_args>>
    /\ UNCHANGED <<batchVars, glacVars>>

\* a series of two years
TwoYears(y1, y2) ==
    [m \in 1..(2 * NumMonths) |-> IF m <= NumMonths THEN y1[m] ELSE y2[m - NumMonths]]

\* rows of gcm_temp_subset over two years: years with and without a melt
\* season after the offset
Stage1GcmTempSeries ==
    {TwoYears(Series(-35, -5), y2) : y2 \in {Series(-35, -5), Series(-25, 5)}}
\* a GCM that stays below -2 degrees
ColdGcmTempSeries == {TwoYears(Series(-45, -25), Series(-45, -25))}
\* rows of the hypsometry: a glacier over all bins, one in the lowest bin
\* only, one in the highest bin only
Stage1Areas ==
    {[b \in Bins |-> 1], [b \in Bins |-> IF b = 1 THEN 1 ELSE 0],
     [b \in Bins |-> IF b = NumBins THEN 1 ELSE 0]}
\* the offsets of stage 1 in steps of a tenth of a degree
FineOffsets == DegC(-3)..DegC(3)

\* the rows of a glacier whose reference temperature is the GCM temperature
\* plus shift, with the same elevation and the same lapse rates
ShiftedGlacier(area, gcm_temp, lr, elev, shift) ==
    [glacier_area_t0 |-> area,
     glacier_gcm_temp |-> gcm_temp,
     glacier_ref_temp |-> [m \in DOMAIN gcm_temp |-> gcm_temp[m] + shift],
     glacier_lr |-> TwoYears(lr, lr),
     glacier_elev |-> elev]

\* two glaciers, 24 months, reference = GCM + 2 degrees
InitStage1 ==
    /\ fn = "stage1"
    /\ \E area \in [1..2 -> Stage1Areas],
          gcm_temp \in [1..2 -> Stage1GcmTempSeries \cup ColdGcmTempSeries],
          lr \in LrSeries, elev \in RefElevs :
          fn_args = [g \in 1..2 |->
                        ShiftedGlacier(area[g], gcm_temp[g], lr, elev, DegC(2))]
    /\ fn_result = NoField

\* melt_vol_ref of one glacier: lines 239-255
Stage1MeltVolRef(a) ==
    MeltVol(RemoveOffGlacier(TempToBins(a.glacier_ref_temp, a.glacier_lr, a.glacier_lr,
                                        a.glacier_elev, modelparameters),
                             a.glacier_area_t0),
            a.glacier_area_t0)

\* glac_bin_temp_gcm of one glacier: lines 242-247
Stage1TempGcm(a) ==
    RemoveOffGlacier(TempToBins(a.glacier_gcm_temp, a.glacier_lr, a.glacier_lr,
                                a.glacier_elev, modelparameters),
                     a.glacier_area_t0)

\* the stage-1 objective of one glacier at the offset x: lines 239-263
Stage1Objective(x, a) ==
    objective_at(x, Stage1MeltVolRef(a), Stage1TempGcm(a), a.glacier_area_t0)

\* the points of S nearest to x0
Nearest(S, x0) == {x \in S : \A y \in S : Abs(x - x0) <= Abs(y - x0)}

\* minimize(objective, bias_adj_init, method='SLSQP') for a run that
\* converges: the descent starts at bias_adj_init and ends where the
\* objective is least; where it is least on a whole range of offsets, at the
\* end of the range nearest to the start
Stage1Solutions(a) ==
    LET melt_vol_ref == Stage1MeltVolRef(a)
        obj == [x \in FineOffsets |->
                   objective_at(x, melt_vol_ref, Stage1TempGcm(a), a.glacier_area_t0)]
    IN  Nearest(ArgMin(obj, FineOffsets), bias_adj_init)

\* rows of ref_temp over two years, with and without a melt season
Stage1RefTempSeries ==
    {TwoYears(y, y) : y \in {Series(-15, 15), Series(-25, 5), Series(-45, -25)}}
\* amounts by which a GCM's temperature series is raised
Raises == {0, DegC(1), DegC(2)}

\* one glacier, its reference rows, and its GCM rows before and after the
\* GCM temperature is raised by d
InitStage1Raise ==
    /\ fn = "stage1_raise"
    /\ \E area \in Stage1Areas, ref_temp \in Stage1RefTempSeries,
          gcm_temp \in Stage1GcmTempSeries, lr \in LrSeries, elev \in RefElevs,
          d \in Raises :
          LET g == [ShiftedGlacier(area, gcm_temp, lr, elev, 0)
                        EXCEPT !.glacier_ref_temp = ref_temp]
          IN  fn_args = [old |-> g,
                         new |-> [g EXCEPT !.glacier_gcm_temp = TempAdj(gcm_temp, d)],
                         d |-> d]
    /\ fn_result = NoField

\* stage 1 of the glacier with each of the two GCM series
ApplyStage1Raise ==
    /\ fn = "stage1_raise"
    /\ fn_result = NoField
    /\ \E x_old \in Stage1Solutions(fn_args.old) :
       \E x_new \in Stage1Solutions(fn_args.new) :
          fn_result' = [old |-> x_old, new |-> x_new]
    /\ UNCHANGED <<fn, fn_args>>
    /\ UNCHANGED <<batchVars, glacVars>>

\* stage 1 of every glacier, lines 239-268, for a minimiser that converges:
\* bias_adj_temp_opt.x is an offset where objective() is least
ApplyStage1 ==
    /\ fn = "stage1"
    /\ fn_result = NoField
    /\ \E x1 \in Stage1Solutions(fn_args[1]) :
       \E x2 \in Stage1Solutions(fn_args[2]) :
          fn_result' = <<x1, x2>>
    /\ UNCHANGED <<fn, fn_args>>
    /\ UNCHANGED <<batchVars, glacVars>>

\* ndarray.flatten() of a 2-D array in C order
Flat(A) ==
    LET cols == Len(A[1])
    IN  [i \in 1..(Len(A) * cols) |-> A[((i - 1) \div cols) + 1][((i - 1) % cols) + 1]]

\* vector.reshape(-1, cols)
ReshapeVec(v, cols) ==
    [r \in 1..(Len(v) \div cols) |-> [c \in 1..cols |-> v[(r - 1) * cols + c]]]

\* vector.reshape(rows, -1)
ReshapeRows(v, rows) == ReshapeVec(v, Len(v) \div rows)

\* A.reshape(-1, cols) of a 2-D array
Reshape(A, cols) == ReshapeVec(Flat(A), cols)

\* A.transpose() of a 2-D array
Transpose(A) == [c \in 1..Len(A[1]) |-> [r \in 1..Len(A) |-> A[r][c]]]

\* A.mean(1): the mean of every row
Mean1(A) == [r \in 1..Len(A) |-> SumSet(A[r], DOMAIN A[r]) \div Len(A[r])]

\* the chain without its first transpose
ref_lr_monthly_avg_noTranspose(ref_lr, ref_temp_cols) ==
    Transpose(ReshapeRows(Mean1(Reshape(Reshape(ref_lr, NumMonths),
                                        ref_temp_cols \div NumMonths)),
                          NumMonths))
\* ref_lr.reshape(-1,12).transpose().reshape(-1,int(ref_temp.shape[1]/12))
\*       .mean(1).reshape(12,-1).transpose()
ref_lr_monthly_avg(ref_lr, ref_temp_cols) ==
    Transpose(ReshapeRows(Mean1(Reshape(Transpose(Reshape(ref_lr, NumMonths)),
                                        ref_temp_cols \div NumMonths)),
                          NumMonths))

\* np.tile(A, n) of a 2-D array: every row repeated n times along its length
Tile(A, n) ==
    [g \in 1..Len(A) |->
        [t \in 1..(Len(A[g]) * n) |-> A[g][((t - 1) % Len(A[g])) + 1]]]

\* rows of ref_lr of G glaciers over Y years: the value of glacier g in year
\* y at calendar position m, in a unit that keeps the means whole
RefLrTables(G, Y) ==
    {[g \in 1..G |-> [t \in 1..(NumMonths * Y) |->
         LET y == ((t - 1) \div NumMonths) + 1
             m == ((t - 1) % NumMonths) + 1
         IN  6 * (k[1] * g + k[2] * y + k[3] * m + k[4] * g * y * m)]] :
     k \in {<<100, 20, 1, 0>>, <<0, 20, 1, 0>>, <<1, 0, 0, 1>>}}

\* the reference lapse rates of a chunk of glaciers and the lengths of the
\* reference and the GCM series, both of whole years
InitLr ==
    /\ fn = "lr"
    /\ \E G \in 1..MaxChunk, Y \in 1..MaxYears : \E more \in {0, 1} :
       \E lr \in RefLrTables(G, Y) :
          fn_args = [ref_lr |-> lr, ref_temp_cols |-> NumMonths * Y,
                     gcm_temp_cols |-> NumMonths * (Y + more)]
    /\ fn_result = NoField

\* lines 155-156 and 177
ApplyLr ==
    /\ fn = "lr"
    /\ fn_result = NoField
    /\ LET avg == ref_lr_monthly_avg(fn_args.ref_lr, fn_args.ref_temp_cols)
       IN  fn_result' = [ref_lr_monthly_avg |-> avg,
                         gcm_lr |-> Tile(avg, fn_args.gcm_temp_cols \div NumMonths)]
    /\ UNCHANGED <<fn, fn_args>>
    /\ UNCHANGED <<batchVars, glacVars>>

\* the threshold itself counted as rain
RainHard_atThreshold(T, P, mp) == IF T >= mp.tempsnow THEN P ELSE 0
\* option_accumulation == 1: glac_bin_prec is np.zeros, then the total
\* where the temperature is above the threshold
RainHard(T, P, mp) == IF T > mp.tempsnow THEN P ELSE 0

\* option_accumulation == 1: glac_bin_acc is np.zeros, then the total where
\* the temperature is at or below the threshold
SnowHard(T, P, mp) == IF T <= mp.tempsnow THEN P ELSE 0

\* liquid and solid part of one bin and month under input.option_accumulation
Partition(option, T, P, mp) ==
    IF option = 1 THEN [prec |-> RainHard(T, P, mp), acc |-> SnowHard(T, P, mp)]
    ELSE IF option = 2 THEN [prec |-> Rain(T, P, mp), acc |-> Snow(T, P, mp)]
    ELSE [prec |-> 0, acc |-> 0]

\* temperatures of a bin and month from 1.5 degrees below the threshold to
\* 1.5 degrees above it, in steps of half a degree
PartitionTemps == {modelparameters.tempsnow + 5 * k : k \in (0 - 3)..3}
\* binned precipitation of a month
PartitionPrecs == {0, PerMille(20), PerMille(40)}

InitPartition ==
    /\ fn = "partition"
    /\ \E option \in {1, 2}, T \in PartitionTemps, P \in PartitionPrecs :
          fn_args = [option_accumulation |-> option, glac_bin_temp |-> T,
                     glac_bin_precsnow |-> P]
    /\ fn_result = NoField

\* lines 311-343 for one bin and month
ApplyPartition ==
    /\ fn = "partition"
    /\ fn_result = NoField
    /\ fn_result' = Partition(fn_args.option_accumulation, fn_args.glac_bin_temp,
                              fn_args.glac_bin_precsnow, modelparameters)
    /\ UNCHANGED <<fn, fn_args>>
    /\ UNCHANGED <<batchVars, glacVars>>

\* ------------------------------------------ the loop body for one glacier
\* glac_bin_temp_ref / glac_bin_temp_gcm of the glacier a: lines 233-247
BinTempRef(a) ==
    RemoveOffGlacier(TempToBins(a.glacier_ref_temp, a.glacier_ref_lr, a.glacier_ref_lr,
                                a.glacier_ref_elev, modelparameters),
                     a.glacier_area_t0)
BinTempGcm(a) ==
    RemoveOffGlacier(TempToBins(a.glacier_gcm_temp, a.glacier_gcm_lr, a.glacier_gcm_lr,
                                a.glacier_gcm_elev, modelparameters),
                     a.glacier_area_t0)

\* bias_adj_prec_init of line 353 for the stage-1 offset x
bias_adj_prec_init(a, x) ==
    LET area == a.glacier_area_t0
        acc_ref == AccField(BinTempRef(a),
                            PrecLimit(PrecToBins(a.glacier_ref_prec, modelparameters), area),
                            area, modelparameters)
        acc_gcm == AccField(AddOffset(BinTempGcm(a), x),
                            PrecLimit(PrecToBins(a.glacier_gcm_prec, modelparameters), area),
                            area, modelparameters)
    IN  Ratio(Total(acc_ref, area), Total(acc_gcm, area))

\* the row of main_glac_bias_adj of the glacier: np.zeros
ZeroOutputRow ==
    [temp_adj |-> 0, prec_adj |-> Ratio(0, 1), ref_mb_mwea |-> 0, gcm_mb_mwea |-> 0]

\* one glacier with ice and its rows of the climate tables (lines 201-227),
\* at the head of the loop body; fn_result holds the locals of the body
InitGlacier ==
    /\ fn = "glacier"
    /\ \E g \in Geometries, ref_temp \in RefTempSeries, gcm_temp \in GcmTempSeries,
          ref_prec \in RefPrecSeries, gcm_prec \in GcmPrecSeries,
          lr \in LrSeries, ref_elev \in RefElevs, gcm_elev \in GcmElevs :
          /\ HasIce([b \in Bins |-> g[b][2]])
          /\ fn_args = [glacier_area_t0 |-> [b \in Bins |-> g[b][1]],
                        glacier_ref_temp |-> ref_temp, glacier_ref_prec |-> ref_prec,
                        glacier_ref_elev |-> ref_elev, glacier_ref_lr |-> lr,
                        glacier_gcm_temp |-> gcm_temp, glacier_gcm_prec |-> gcm_prec,
                        glacier_gcm_elev |-> gcm_elev, glacier_gcm_lr |-> lr]
    /\ fn_result = [pos |-> "stage1", bias_adj_temp_opt |-> NoField,
                    bias_adj_params_init |-> NoField,
                    bias_adj_params_opt_raw |-> NoField, row |-> ZeroOutputRow]

\* lines 257-269: the stage-1 minimize call
GlacierStage1 ==
    /\ fn = "glacier"
    /\ fn_result.pos = "stage1"
    /\ LET obj == [x \in Offsets |->
                      objective(x, BinTempRef(fn_args), BinTempGcm(fn_args),
                                fn_args.glacier_area_t0)]
       IN  \E success \in BOOLEAN :
           \E x \in (IF success THEN ArgMin(obj, Offsets) ELSE Offsets) :
              fn_result' = [fn_result EXCEPT
                               !.pos = "stage1b",
                               !.bias_adj_temp_opt = [x |-> x, success |-> success]]
    /\ UNCHANGED <<fn, fn_args>>
    /\ UNCHANGED <<batchVars, glacVars>>

\* the start point taken at the reference point of the solver in place of
\* the stage-1 / stage-1b pair
GlacierStage1b_fixedStart ==
    /\ fn = "glacier"
    /\ fn_result.pos = "stage1b"
    /\ fn_result' = [fn_result EXCEPT
                        !.pos = "stage2",
                        !.bias_adj_params_init = <<bias_adj_init, Ratio(1, 1)>>]
    /\ UNCHANGED <<fn, fn_args>>
    /\ UNCHANGED <<batchVars, glacVars>>
\* lines 270-358 and 412: the precipitation factor from the accumulations,
\* bias_adj_params_init = (bias_adj_temp_init, bias_adj_prec_init)
GlacierStage1b ==
    /\ fn = "glacier"
    /\ fn_result.pos = "stage1b"
    /\ fn_result' = [fn_result EXCEPT
                        !.pos = "stage2",
                        !.bias_adj_params_init =
                            <<fn_result.bias_adj_temp_opt.x,
                              bias_adj_prec_init(fn_args, fn_result.bias_adj_temp_opt.x)>>]
    /\ UNCHANGED <<fn, fn_args>>
    /\ UNCHANGED <<batchVars, glacVars>>

\* lines 414-418: the stage-2 minimize call and the pair recorded in the row
GlacierStage2 ==
    /\ fn = "glacier"
    /\ fn_result.pos = "stage2"
    /\ LET obj == [x \in Feasible |-> objective_2(x, fn_args)]
       IN  \E success \in BOOLEAN :
           \E x \in (IF success THEN ArgMin(obj, Feasible) ELSE Offsets \X PrecAdjs) :
              fn_result' = [fn_result EXCEPT
                               !.pos = "diag",
                               !.bias_adj_params_opt_raw = [x |-> x, success |-> success],
                               !.row.temp_adj = x[1],
                               !.row.prec_adj = x[2]]
    /\ UNCHANGED <<fn, fn_args>>
    /\ UNCHANGED <<batchVars, glacVars>>

\* lines 420-470: the mass balances of the reference climate and of the GCM
\* climate adjusted with bias_adj_params_opt, recorded in the row
GlacierDiagnostics ==
    /\ fn = "glacier"
    /\ fn_result.pos = "diag"
    /\ LET bias_adj_params_opt == fn_result.bias_adj_params_opt_raw.x
       IN  fn_result' = [fn_result EXCEPT
               !.pos = "done",
               !.row.ref_mb_mwea =
                   mb_mwea(fn_args.glacier_ref_temp, fn_args.glacier_ref_prec,
                           fn_args.glacier_ref_elev, fn_args.glacier_ref_lr,
                           fn_args.glacier_area_t0, modelparameters),
               !.row.gcm_mb_mwea =
                   mb_mwea(TempAdj(fn_args.glacier_gcm_temp, bias_adj_params_opt[1]),
                           PrecAdj(fn_args.glacier_gcm_prec, bias_adj_params_opt[2]),
                           fn_args.glacier_gcm_elev, fn_args.glacier_gcm_lr,
                           fn_args.glacier_area_t0, modelparameters)]
    /\ UNCHANGED <<fn, fn_args>>
    /\ UNCHANGED <<batchVars, glacVars>>

\* --------------------------------------------- one glacier in two chunkings
\* rows of the input tables of one glacier of the population: hypsometry and
\* thickness, reference and GCM climate at the nearest grid cell.  The three
\* glaciers differ in geometry, climate and lapse rate; the third has no ice.
GlacierRows ==
    {[geom |-> Glacier(1, NumBins, 5),
      ref_temp |-> Series(-5, 25), ref_prec |-> Series(20, 20),
      ref_elev |-> elev_bins[1], ref_lr |-> Series(-1, -1),
      gcm_temp |-> Series(-15, 15), gcm_prec |-> Series(40, 40),
      gcm_elev |-> elev_bins[1] + binsize],
     [geom |-> Glacier(1, 1, 5),
      ref_temp |-> Series(-5, 25), ref_prec |-> Series(20, 20),
      ref_elev |-> elev_bins[1], ref_lr |-> Series(-2, -1),
      gcm_temp |-> Series(-35, -5), gcm_prec |-> Series(20, 20),
      gcm_elev |-> elev_bins[1] + binsize],
     [geom |-> Glacier(1, NumBins, 0),
      ref_temp |-> Series(-5, -5), ref_prec |-> Series(20, 20),
      ref_elev |-> elev_bins[1], ref_lr |-> Series(-3, -2),
      gcm_temp |-> Series(-15, 15), gcm_prec |-> Series(20, 20),
      gcm_elev |-> elev_bins[1] + binsize]}

\* the whole table used in place of the rows selected for the chunk
ChunkTable_unselected(table, ids) == table
\* table_all[main_glac_rgi['O1Index'].values]: the rows of the glaciers of
\* the chunk, in the order of the chunk
ChunkTable(table, ids) == [k \in 1..Len(ids) |-> table[ids[k]]]

\* SLSQP is a deterministic procedure: the same objective and the same start
\* point give the same point.  Stage 1, converged, from bias_adj_init:
Solve1(a) ==
    LET obj == [x \in Offsets |->
                   objective(x, BinTempRef(a), BinTempGcm(a), a.glacier_area_t0)]
    IN  CHOOSE x \in Nearest(ArgMin(obj, Offsets), bias_adj_init) : TRUE
\* stage 2, converged
Solve2(a) ==
    LET obj == [x \in Feasible |-> objective_2(x, a)]
    IN  CHOOSE x \in ArgMin(obj, Feasible) : TRUE

\* the body of the glacier loop, lines 202-470, for the rows a of one
\* glacier: the row of main_glac_bias_adj it leaves
LoopBody(a) ==
    IF ~HasIce(a.icethickness_t0) THEN ZeroOutputRow
    ELSE LET x == Solve2(a)
         IN  [temp_adj |-> x[1], prec_adj |-> x[2],
              ref_mb_mwea |->
                  mb_mwea(a.glacier_ref_temp, a.glacier_ref_prec, a.glacier_ref_elev,
                          a.glacier_ref_lr, a.glacier_area_t0, modelparameters),
              gcm_mb_mwea |->
                  mb_mwea(TempAdj(a.glacier_gcm_temp, x[1]),
                          PrecAdj(a.glacier_gcm_prec, x[2]),
                          a.glacier_gcm_elev, a.glacier_gcm_lr, a.glacier_area_t0,
                          modelparameters)]

\* main(list_packed_vars) for the chunk at offset chunk of the population
\* pop: the tables are cut to the chunk (lines 124-153), the lapse-rate
\* climatology is taken over the chunk (lines 155-156, 177-181), and the
\* loop body runs for each glacier of the chunk at its position k (glac)
WorkerRows(pop, chunk, size) ==
    LET ids == ChunkIds(chunk, size, Len(pop))
        col(name) == ChunkTable([i \in 1..Len(pop) |-> pop[i][name]], ids)
        main_glac_hyps == col("geom")
        ref_temp == col("ref_temp")
        ref_prec == col("ref_prec")
        ref_elev == col("ref_elev")
        ref_lr == col("ref_lr")
        gcm_temp == col("gcm_temp")
        gcm_prec == col("gcm_prec")
        gcm_elev == col("gcm_elev")
        avg == ref_lr_monthly_avg(ref_lr, NumMonths)
        gcm_lr_subset == [g \in 1..Len(avg) |-> SubSeq(Tile(avg, MaxYears)[g], 1, NumMonths)]
    IN  [k \in 1..Len(ids) |->
            LoopBody([glacier_area_t0 |-> [b \in Bins |-> main_glac_hyps[k][b][1]],
                      icethickness_t0 |-> [b \in Bins |-> main_glac_hyps[k][b][2]],
                      glacier_ref_temp |-> ref_temp[k],
                      glacier_ref_prec |-> ref_prec[k],
                      glacier_ref_elev |-> ref_elev[k],
                      glacier_ref_lr |-> ref_lr[k],
                      glacier_gcm_temp |-> gcm_temp[k],
                      glacier_gcm_prec |-> gcm_prec[k],
                      glacier_gcm_elev |-> gcm_elev[k],
                      glacier_gcm_lr |-> gcm_lr_subset[k]])]

\* the row of the glacier id (1-based position in the population) in a run
\* with w processes: lines 506, 519-520 and main() of the chunk that holds it
RowInRun(pop, w, id) ==
    LET size == ChunkSize(Len(pop), w)
        lpv == Range(0, Len(pop), size)
        chunk == CHOOSE c \in {lpv[k] : k \in 1..Len(lpv)} : c < id /\ id <= c + size
    IN  WorkerRows(pop, chunk, size)[id - chunk]

\* populations of MaxChunk + 1 glaciers in which neighbours differ
Populations ==
    {pop \in [1..(MaxChunk + 1) -> GlacierRows] :
        \A i \in 1..MaxChunk : pop[i] # pop[i + 1]}

\* a population, one of its glaciers, and two process counts: one process
\* (the whole population in one chunk) and several
InitChunks ==
    /\ fn = "chunks"
    /\ \E pop \in Populations, id \in 1..(MaxChunk + 1), wb \in 2..(MaxW + 1) :
          fn_args = [pop |-> pop, id |-> id, wa |-> 1, wb |-> wb]
    /\ fn_result = NoField

\* the glacier's row in each of the two runs
ApplyChunks ==
    /\ fn = "chunks"
    /\ fn_result = NoField
    /\ fn_result' = [a |-> RowInRun(fn_args.pop, fn_args.wa, fn_args.id),
                     b |-> RowInRun(fn_args.pop, fn_args.wb, fn_args.id)]
    /\ UNCHANGED <<fn, fn_args>>
    /\ UNCHANGED <<batchVars, glacVars>>

\* the orchestrator and the glacier loop are not running
BatchOff ==
    /\ dir = <<>>
    /\ today = 1
    /\ nglac = 1
    /\ num_simultaneous_processes = [r \in Procs |-> 1]
    /\ option_parallels = [r \in Procs |-> 0]
    /\ rcp_scenario = [r \in Procs |-> "rcp26"]
    /\ gcm_list = [r \in Procs |-> <<"gcmA">>]
    /\ pc = [r \in Procs |-> "off"]
    /\ invocations = 1
    /\ ProcInit
    /\ GlacStart(0)

\* the functions of main() applied on their own to arguments drawn from
\* small sets
InitFn ==
    /\ BatchOff
    /\ \/ InitPrecLimit
       \/ InitMelt
       \/ InitStage2
       \/ InitStage1
       \/ InitStage1Raise
       \/ InitLr
       \/ InitPartition
       \/ InitGlacier
       \/ InitChunks

NextFn ==
    \/ ApplyPrecLimit
    \/ ApplyMelt
    \/ ApplyStage2
    \/ ApplyStage1
    \/ ApplyStage1Raise
    \/ ApplyLr
    \/ ApplyPartition
    \/ GlacierStage1
    \/ GlacierStage1b
    \/ GlacierStage2
    \/ GlacierDiagnostics
    \/ ApplyChunks

SpecFn == InitFn /\ [][NextFn]_vars

\* ====================================================================== claims
MergedResNames(g, s) == {biasadj_all_fn(g, s, d) : d \in 1..MaxDay}

\* number of rows of a table whose RGIId is id
IdCount(rows, id) ==
    LET rs == {x \in BagToSet(rows) : x[1] = id}
    IN  SumSet([x \in rs |-> CopiesIn(x, rows)], rs)

\* C1: every merged result table on disk has exactly as many rows as the
\* chunk files of its GCM hold together (the population size) and holds
\* every glacier identity of the population exactly once.
C1_MergedTableExact ==
    \A f \in DOMAIN dir :
        (dir[f].kind = "res" /\ dir[f].role = "merge")
            => /\ BagCardinality(dir[f].lines) = nglac
               /\ \A id \in 1..nglac : IdCount(dir[f].lines, id) = 1

\* C2: once a merged lapse-rate file has been written, no later step deletes
\* it, rewrites it or changes its contents.
C2_LrFileWrittenOnce ==
    [][\A f \in DOMAIN dir :
          (dir[f].kind = "lr" /\ dir[f].role = "merge")
              => (f \in DOMAIN dir' /\ dir'[f] = dir[f])]_vars

C5_MergeAfterAllChunks ==
    \A r \in Procs :
        (pc[r] \in {"merge", "merged"} \/ mergeRead[r] # {})
            => \A k \in 1..Len(list_packed_vars[r]) :
                  chunk_state[r][list_packed_vars[r][k]] = "written"

\* C5 witness: a merge in parallel mode over at least two chunks has read a file.
C5_Witness ==
    \E r \in Procs :
        /\ pc[r] = "merge" /\ ParallelMode(r)
        /\ Len(list_packed_vars[r]) >= 2
        /\ mergeRead[r] # {}

\* C6 (as stated): when the script has ended because a worker failed, the
\* merge of that GCM has nevertheless run and written its merged table.
C6_FailedChunkStillMerged ==
    \A r \in Procs : pc[r] = "aborted" => gi[r] \in wrote[r]

\* C6 (amended): the step in which a worker fails writes no file; from then
\* on the chunk stays failed (no retry), the process is either still in the
\* dispatch or has ended on the uncaught exception, and the merge of that GCM
\* never runs nor writes a merged table.
C6_FailureAborts ==
    [][\A r \in Procs : \A c \in DOMAIN chunk_state[r] :
          /\ (chunk_state[r][c] # "failed" /\ c \in DOMAIN chunk_state'[r]
                 /\ chunk_state'[r][c] = "failed") => dir' = dir
          /\ chunk_state[r][c] = "failed"
                => /\ pc[r] \in {"run", "aborted"}
                   /\ pc'[r] \in {"run", "aborted"}
                   /\ c \in DOMAIN chunk_state'[r] /\ chunk_state'[r][c] = "failed"
                   /\ gi'[r] \notin wrote'[r]]_vars

\* C6 witness: the script has ended on a worker failure although another
\* chunk of the GCM had written its file, and no merged table was written.
C6_Witness ==
    \E r \in Procs :
        /\ pc[r] = "aborted"
        /\ \E c \in DOMAIN chunk_state[r] : chunk_state[r][c] = "failed"
        /\ \E c \in DOMAIN chunk_state[r] : chunk_state[r][c] = "written"
        /\ gi[r] \notin wrote[r]

\* C7: the merge loop never ends on an exception.
C7_MergeNeverFails == \A r \in Procs : pc[r] # "crashed"

C9_ChunkPartition ==
    \A r \in Procs :
        Len(list_packed_vars[r]) > 0
            => LET w == num_simultaneous_processes[r]
                   sz == chunk_size[r]
                   lpv == list_packed_vars[r]
                   ids(k) == ChunkIds(lpv[k], sz, nglac)
               IN  /\ sz * w >= nglac /\ (sz - 1) * w < nglac
                   /\ \A k \in 1..Len(lpv) : lpv[k] = (k - 1) * sz /\ lpv[k] < nglac
                   /\ Len(lpv) * sz >= nglac
                   /\ \A id \in 1..nglac :
                         Cardinality({k \in 1..Len(lpv) :
                                         \E j \in 1..Len(ids(k)) : ids(k)[j] = id}) = 1
                   /\ \A k \in 1..Len(lpv) : Len(ids(k)) >= 1
                   /\ Len(lpv) <= w

\* C9 witness: three glaciers over two workers, chunks of two and one.
C9_Witness ==
    \E r \in Procs :
        /\ nglac = 3 /\ num_simultaneous_processes[r] = 2
        /\ list_packed_vars[r] = <<0, 2>>
        /\ \A c \in {0, 2} : chunk_state[r][c] = "written"

\* C3: a glacier whose maximum ice thickness is zero gets no solver stage and
\* no mass-balance run, and its row keeps temp_adj = 0 and prec_adj = 0,
\* whatever climate rows were drawn for it.
C3_ZeroIceSkipped ==
    \A i \in 1..Len(icethickness_max) :
        icethickness_max[i] = 0
            => /\ minimize_calls[i] = 0
               /\ runmassbalance_calls[i] = 0
               /\ main_glac_bias_adj[i].temp_adj = 0
               /\ main_glac_bias_adj[i].prec_adj = Ratio(0, 1)

\* a chunk was exported in which a glacier with area but without ice was
\* passed over and another glacier went through both solver stages
C3_Witness ==
    /\ gpc = "exported"
    /\ \E i, j \in 1..nrows :
          /\ icethickness_max[i] = 0
          /\ minimize_calls[i] = 0
          /\ icethickness_max[j] > 0
          /\ minimize_calls[j] = 2
          /\ main_glac_bias_adj[j].temp_adj # 0

\* C10: in every bin with zero area and every month the downscaled
\* temperature, precipitation, accumulation and melt fields the solver uses
\* are zero, for the reference and the GCM climate, the GCM temperature with
\* the stage-1 offset added included.
C10_OffGlacierZero ==
    \A b \in Bins : \A m \in Months :
        (gpc \in {"stage1", "stage1b", "stage2"} /\ glacier_area_t0[b] = 0)
            => /\ glac_bin_temp_ref[b][m] = 0
               /\ glac_bin_temp_gcm[b][m] = 0
               /\ MeltField(glac_bin_temp_ref, surfacetype_ddf(glacier_area_t0))[b][m] = 0
               /\ gpc # "stage1"
                     => /\ glac_bin_temp_gcm_adj[b][m] = 0
                        /\ MeltField(glac_bin_temp_gcm_adj,
                                     surfacetype_ddf(glacier_area_t0))[b][m] = 0
               /\ gpc = "stage2"
                     => /\ glac_bin_prec_ref[b][m] = 0
                        /\ glac_bin_prec_gcm[b][m] = 0
                        /\ glac_bin_acc_ref[b][m] = 0
                        /\ glac_bin_acc_gcm[b][m] = 0

\* C11: in a glacier whose non-zero-area bins span more than 1000 m, after
\* the precipitation limiting no bin of the upper 25% has, in any month, less
\* than 87.5% of the maximum over the non-zero-area bins in that month.
C11_UpperQuartileFloor ==
    (fn = "preclimit" /\ fn_result # NoField)
        => LET area == fn_args.glacier_area_t0
               elev == fn_args.elev_bins
               idx == glac_idx_t0(area)
           IN  elev[Max(idx)] - elev[Min(idx)] > 1000
                   => \A m \in Months :
                          LET mx == Max({fn_result[c][m] : c \in idx})
                          IN  \A b \in glac_idx_upper25(area) :
                                  8 * fn_result[b][m] >= 7 * mx

\* a glacier of more than 1000 m with precipitation whose upper bins were
\* decayed below the floor and raised to it
C11_Witness ==
    /\ fn = "preclimit"
    /\ fn_result # NoField
    /\ LET area == fn_args.glacier_area_t0
           elev == fn_args.elev_bins
           idx == glac_idx_t0(area)
           precsnow == PrecToBinsOn(fn_args.glacier_prec, fn_args.modelparameters,
                                    elev, fn_args.Zmed)
       IN  /\ elev[Max(idx)] - elev[Min(idx)] > 1000
           /\ fn_args.modelparameters.precgrad > 0
           /\ \E b \in glac_idx_upper25(area) : \E m \in Months :
                  /\ PrecDecay(precsnow, area, elev)[b][m] < fn_result[b][m]
                  /\ 8 * fn_result[b][m] = 7 * Max({fn_result[c][m] : c \in idx})

\* C12: the total melt volume is monotonic in the temperature offset: for
\* two offsets a <= b the melt with offset a is at most the melt with
\* offset b, for every temperature field, degree-day factors >= 0 and
\* areas >= 0.
C12_MeltMonotonic ==
    (fn = "melt" /\ fn_result # NoField)
        => fn_result[fn_args.a] <= fn_result[fn_args.b]

\* two different offsets, the smaller leaving a bin-month with area below
\* 0 degrees that the larger brings above, and more melt with the larger
C12_Witness ==
    /\ fn = "melt"
    /\ fn_result # NoField
    /\ fn_args.a < fn_args.b
    /\ \E b \in Bins, m \in Months :
          /\ fn_args.glacier_area_t0[b] > 0
          /\ fn_args.surfacetype_ddf[b] > 0
          /\ fn_args.glac_bin_temp_gcm[b][m] + fn_args.a < 0
          /\ fn_args.glac_bin_temp_gcm[b][m] + fn_args.b > 0
    /\ fn_result[fn_args.a] < fn_result[fn_args.b]

\* C13: for every solved glacier (one with ice) the recorded pair satisfies
\* temp_adj * (prec_adj - 1) <= tolerance, here 0.01 degC, whatever point
\* the stage-2 solver returns.
C13_ConstraintSatisfied ==
    \A j \in 1..glac :
        (icethickness_max[j] > 0 /\ minimize_calls[j] = 2)
            => LET row == main_glac_bias_adj[j]
               IN  10 * (-constraint_temp_prec(row.temp_adj, row.prec_adj))
                       <= row.prec_adj.den

\* C14: for every solved glacier the mean annual mass balance of the GCM
\* climate with the recorded temp_adj added and the recorded prec_adj
\* multiplied in differs from the one of the reference climate by at most
\* the stage-2 tolerance, 1e-3 m w.e. per year.
C14_RoundTrip ==
    (fn = "stage2" /\ fn_result # NoField)
        => Abs(fn_result.ref_mb_mwea - fn_result.gcm_mb_mwea)
               <= 1000 * SumSet(fn_args.glacier_area_t0, Bins)

RefMelts(a) == Stage1MeltVolRef(a) > 0

UnitState(g, c) ==
    IF g \in wrote[1] THEN "merged"
    ELSE IF g = gi[1] /\ pc[1] \notin {"start", "pack"} /\ c \in DOMAIN chunk_state[1]
    THEN chunk_state[1][c]
    ELSE "pending"

\* the chunks of every pass: range(0, N, chunk_size)
Units ==
    {u \in (1..Len(gcm_list[1])) \X (0..(nglac - 1)) :
        u[2] % ChunkSize(nglac, num_simultaneous_processes[1]) = 0}

LifecycleOrder ==
    {<<"pending", "running">>, <<"running", "written">>, <<"written", "merged">>,
     <<"running", "failed">>}

WorkerFailed == \E c \in DOMAIN chunk_state[1] : chunk_state[1][c] = "failed"

AllMerged == \A u \in Units : UnitState(u[1], u[2]) = "merged"

\* C17: every (GCM, chunk) unit follows pending -> running -> written ->
\* merged without skipping a state or returning to an earlier one, and, when
\* no worker fails, every chunk of every GCM of the list eventually
\* reaches merged.
C17_Lifecycle ==
    /\ [][\A u \in Units :
            \/ UnitState(u[1], u[2])' = UnitState(u[1], u[2])
            \/ <<UnitState(u[1], u[2]), UnitState(u[1], u[2])'>> \in LifecycleOrder]_vars
    /\ <>(WorkerFailed \/ AllMerged)

\* chunks of the current pass in the state st
ChunksIn(st) == {c \in ChunkSet(1) : chunk_state[1][c] = st}

\* C18: for each GCM the chunks go to the process pool exactly when
\* parallelism is enabled and the population has at least 2 * worker-count
\* glaciers; otherwise they are run one after the other in chunk order; in
\* both cases every chunk is run once per GCM: a chunk starts only from
\* pending, returns to pending only when the next GCM is packed, and the
\* merge starts with every chunk written.
C18_Dispatch ==
    [][/\ \A c \in ChunkSet(1) :
            (c \in DOMAIN chunk_state[1] /\ chunk_state[1][c] = "pending"
                /\ c \in DOMAIN chunk_state'[1] /\ chunk_state'[1][c] = "running")
                => IF option_parallels[1] # 0
                       /\ nglac >= 2 * num_simultaneous_processes[1]
                   THEN Cardinality(ChunksIn("running")) < num_simultaneous_processes[1]
                   ELSE /\ ChunksIn("running") = {}
                        /\ \A c2 \in ChunkSet(1) :
                               c2 < c => chunk_state[1][c2] = "written"
       /\ \A c \in DOMAIN chunk_state'[1] :
            /\ (chunk_state'[1][c] = "running"
                    => c \in DOMAIN chunk_state[1]
                          /\ chunk_state[1][c] \in {"pending", "running"})
            /\ (chunk_state'[1][c] = "pending"
                    => \/ pc[1] = "pack"
                       \/ c \in DOMAIN chunk_state[1] /\ chunk_state[1][c] = "pending")
       /\ pc'[1] \in {"merge", "merged"} => ChunksIn("written")' = ChunkSet(1)']_vars

\* parallelism is on, the population is large enough, and the pool is at
\* work on two chunks at once
C18_Witness ==
    /\ pc[1] = "run"
    /\ option_parallels[1] # 0
    /\ nglac >= 2 * num_simultaneous_processes[1]
    /\ Cardinality(ChunksIn("running")) = 2

\* C19: for a reference lapse-rate series of Y whole years the climatology
\* value of glacier g at calendar position m is the mean over the Y years of
\* that glacier's lapse rate at position m, and the GCM lapse-rate series is
\* the 12-element climatology repeated for every year, as long as the GCM
\* climate series.
C19_Climatology ==
    (fn = "lr" /\ fn_result # NoField)
        => LET Y == fn_args.ref_temp_cols \div NumMonths
               avg == fn_result.ref_lr_monthly_avg
           IN  /\ Len(avg) = Len(fn_args.ref_lr)
               /\ \A g \in DOMAIN fn_args.ref_lr :
                    /\ Len(avg[g]) = NumMonths
                    /\ \A m \in 1..NumMonths :
                          Y * avg[g][m] =
                              SumSet([y \in 1..Y |->
                                         fn_args.ref_lr[g][(y - 1) * NumMonths + m]],
                                     1..Y)
                    /\ Len(fn_result.gcm_lr[g]) = fn_args.gcm_temp_cols
                    /\ \A t \in 1..fn_args.gcm_temp_cols :
                          fn_result.gcm_lr[g][t] = avg[g][((t - 1) % NumMonths) + 1]

\* two glaciers and two years of lapse rates that differ between the
\* glaciers, the years and the months, and a GCM series of more years
C19_Witness ==
    /\ fn = "lr"
    /\ fn_result # NoField
    /\ Len(fn_args.ref_lr) >= 2
    /\ fn_args.ref_temp_cols >= 2 * NumMonths
    /\ fn_args.gcm_temp_cols > fn_args.ref_temp_cols
    /\ fn_args.ref_lr[1][1] # fn_args.ref_lr[2][1]
    /\ fn_args.ref_lr[1][1] # fn_args.ref_lr[1][2]
    /\ fn_args.ref_lr[1][1] # fn_args.ref_lr[1][1 + NumMonths]
    /\ fn_result.ref_lr_monthly_avg[1][1] # fn_args.ref_lr[1][1]

\* C20: under the hard-threshold policy a bin-month at or below the snow
\* threshold temperature is all snow and one above it all rain; under the
\* ramp policy the rain fraction rises linearly from 0 at threshold - 1
\* degree to 1 at threshold + 1 degree, a bin-month at or below threshold - 1
\* is all snow and one above threshold + 1 all rain.
C20_SnowRainPartition ==
    (fn = "partition" /\ fn_result # NoField)
        => LET T == fn_args.glac_bin_temp
               P == fn_args.glac_bin_precsnow
               ts == modelparameters.tempsnow
               AllSnow == fn_result.acc = P /\ fn_result.prec = 0
               AllRain == fn_result.prec = P /\ fn_result.acc = 0
           IN  /\ fn_args.option_accumulation = 1
                    => IF T <= ts THEN AllSnow ELSE AllRain
               /\ fn_args.option_accumulation = 2
                    => /\ T <= ts - DegC(1) => AllSnow
                       /\ T > ts + DegC(1) => AllRain
                       /\ (ts - DegC(1) <= T /\ T <= ts + DegC(1))
                            => /\ 2 * DegC(1) * fn_result.prec
                                      = (T - (ts - DegC(1))) * P
                               /\ fn_result.acc = P - fn_result.prec

\* precipitation at the threshold itself under the hard-threshold policy
\* fell as snow
C20_Witness ==
    /\ fn = "partition"
    /\ fn_result # NoField
    /\ fn_args.option_accumulation = 1
    /\ fn_args.glac_bin_temp = modelparameters.tempsnow
    /\ fn_args.glac_bin_precsnow > 0
    /\ fn_result.acc = fn_args.glac_bin_precsnow


\* area-weighted accumulation over the bins with area and all months, of the
\* binned temperature temp shifted by x and the precipitation series prec
WeightedAcc(temp, prec, x, area) ==
    LET precsnow == PrecLimit(PrecToBins(prec, modelparameters), area)
        idx == glac_idx_t0(area)
        perBin == [b \in Bins |->
                      area[b] * SumSeq([m \in Months |->
                                          Snow(temp[b][m] + x, precsnow[b][m],
                                               modelparameters)], NumMonths)]
    IN  SumSet(perBin, idx)

\* C21: when stage 2 is about to start, the precipitation factor of its start
\* point is the quotient of the area-weighted accumulation of the reference
\* climate and that of the GCM climate at the GCM temperature shifted by the
\* stage-1 offset, both summed over the bins with area and all months, and no
\* minimiser was run to obtain it (stage 1 is the only minimize call so far).
C21_PrecSeedRatio ==
    gpc = "stage2"
        => /\ bias_adj_params[2] =
                  Ratio(WeightedAcc(glac_bin_temp_ref, glacier_ref_prec, 0,
                                    glacier_area_t0),
                        WeightedAcc(glac_bin_temp_gcm, glacier_gcm_prec,
                                    bias_adj_temp_opt.x, glacier_area_t0))
           /\ minimize_calls[glac + 1] = 1
           /\ runmassbalance_calls[glac + 1] = 0

\* stage 2 is about to start for a glacier with a bin without area, a
\* stage-1 offset other than 0 and a quotient other than 1
C21_Witness ==
    /\ gpc = "stage2"
    /\ \E b \in Bins : glacier_area_t0[b] = 0
    /\ bias_adj_temp_opt.x # 0
    /\ bias_adj_params[2].den > 0
    /\ bias_adj_params[2].num # bias_adj_params[2].den


\* a minimize call of the glacier in hand has returned without success
Unconverged ==
    \/ gpc \in {"stage1b", "stage2"} /\ ~bias_adj_temp_opt.success
    \/ gpc = "diag" /\ ~bias_adj_params_opt_raw.success

\* C22: whatever success status a minimiser reports, the point it returns is
\* used: the stage-1 point shifts the GCM temperature and starts stage 2, the
\* stage-2 point is the glacier's temp_adj/prec_adj; the rows of the glaciers
\* already passed are left alone; and after a run without success the loop
\* still comes to its end and the chunk's table is exported.
C22_NonConvergenceAccepted ==
    /\ [](gpc \in {"stage1b", "stage2"}
             => glac_bin_temp_gcm_adj =
                    AddOffset(glac_bin_temp_gcm, bias_adj_temp_opt.x))
    /\ [](gpc = "stage2" => bias_adj_params[1] = bias_adj_temp_opt.x)
    /\ [](gpc = "diag"
             => main_glac_bias_adj[glac + 1] =
                    [temp_adj |-> bias_adj_params_opt_raw.x[1],
                     prec_adj |-> bias_adj_params_opt_raw.x[2]])
    /\ [][\A i \in 1..glac : main_glac_bias_adj'[i] = main_glac_bias_adj[i]]_vars
    /\ (Unconverged ~> gpc = "exported")

\* a chunk was exported in which a glacier that is not the last one has a
\* pair violating the stage-2 constraint: its stage-2 run ended without
\* success, and the loop went on to the glaciers after it
C22_Witness ==
    /\ gpc = "exported"
    /\ \E i \in 1..(nrows - 1) :
          /\ icethickness_max[i] > 0
          /\ constraint_temp_prec(main_glac_bias_adj[i].temp_adj,
                                  main_glac_bias_adj[i].prec_adj) < 0
          /\ minimize_calls[i + 1] = 2


\* a chunk of the GCM in hand has raised in main()
ChunkFailed(r) == \E c \in DOMAIN chunk_state[r] : chunk_state[r][c] = "failed"

\* C23: from the moment a worker has raised on a chunk of a GCM, the merge
\* of that GCM is never entered, no chunk of that GCM that was dispatched
\* goes back to pending or is started again (a chunk that has written or
\* failed stays as it is), and the directory never holds a merged table or
\* merged lapse-rate file written for that GCM.
C23_ConfigErrorFatal ==
    [][\A r \in Procs :
          ChunkFailed(r)
              => /\ pc'[r] \notin {"merge", "merged", "pack"}
                 /\ gi'[r] = gi[r]
                 /\ \A c \in DOMAIN chunk_state[r] :
                       /\ c \in DOMAIN chunk_state'[r]
                       /\ chunk_state[r][c] # "pending"
                             => chunk_state'[r][c] # "pending"
                       /\ chunk_state[r][c] \in {"written", "failed"}
                             => chunk_state'[r][c] = chunk_state[r][c]
                 /\ \A f \in DOMAIN dir' :
                       ~(dir'[f].role = "merge" /\ dir'[f].gcm = gcm_name(r))]_vars

\* the script has ended on the exception of a chunk of its second GCM after
\* the first GCM was merged: the directory holds the merged table of the
\* first GCM and none of the second
C23_Witness ==
    \E r \in Procs :
        /\ pc[r] = "aborted"
        /\ gi[r] = 2
        /\ ChunkFailed(r)
        /\ 1 \in wrote[r]
        /\ 2 \notin wrote[r]
        /\ \E f \in DOMAIN dir : dir[f].role = "merge" /\ dir[f].gcm = gcm_list[r][1]


\* C24: in the loop body of a glacier with ice the minimize call of stage 1
\* comes first, then the precipitation ratio, then the minimize call of
\* stage 2, then the output mass balances; stage 2 starts from the pair
\* (stage-1 offset, ratio of the area-weighted accumulations at that offset);
\* nothing is in the row before stage 2 returns, the pair in the row is the
\* point stage 2 returned, and the GCM mass balance in the row is the one of
\* the GCM climate adjusted with the pair in the row.
C24_StageOrder ==
    /\ [](fn = "glacier"
            => LET a == fn_args
                   l == fn_result
               IN  /\ l.pos = "stage1" => l.bias_adj_temp_opt = NoField
                   /\ l.pos \in {"stage1", "stage1b"} => l.bias_adj_params_init = NoField
                   /\ l.pos \in {"stage1", "stage1b", "stage2"}
                         => /\ l.bias_adj_params_opt_raw = NoField
                            /\ l.row = ZeroOutputRow
                   /\ l.pos \in {"stage2", "diag", "done"}
                         => l.bias_adj_params_init =
                                <<l.bias_adj_temp_opt.x,
                                  Ratio(WeightedAcc(BinTempRef(a), a.glacier_ref_prec, 0,
                                                    a.glacier_area_t0),
                                        WeightedAcc(BinTempGcm(a), a.glacier_gcm_prec,
                                                    l.bias_adj_temp_opt.x,
                                                    a.glacier_area_t0))>>
                   /\ l.pos \in {"diag", "done"}
                         => /\ l.row.temp_adj = l.bias_adj_params_opt_raw.x[1]
                            /\ l.row.prec_adj = l.bias_adj_params_opt_raw.x[2]
                   /\ l.pos = "done"
                         => l.row.gcm_mb_mwea =
                                mb_mwea(TempAdj(a.glacier_gcm_temp, l.row.temp_adj),
                                        PrecAdj(a.glacier_gcm_prec, l.row.prec_adj),
                                        a.glacier_gcm_elev, a.glacier_gcm_lr,
                                        a.glacier_area_t0, modelparameters))
    /\ [][fn = "glacier"
            => <<fn_result.pos, fn_result'.pos>> \in
                   {<<"stage1", "stage1b">>, <<"stage1b", "stage2">>,
                    <<"stage2", "diag">>, <<"diag", "done">>}]_vars

\* the loop body of a glacier has ended: stage 1 returned an offset other
\* than 0, the ratio was neither 1 nor undefined, stage 2 reported success
\* at a point other than its start point, and the mass balance recorded for
\* the GCM climate is not 0
C24_Witness ==
    /\ fn = "glacier"
    /\ fn_result.pos = "done"
    /\ fn_result.bias_adj_temp_opt.x # 0
    /\ fn_result.bias_adj_params_init[2].den > 0
    /\ fn_result.bias_adj_params_init[2].num # fn_result.bias_adj_params_init[2].den
    /\ fn_result.bias_adj_params_opt_raw.success
    /\ fn_result.bias_adj_params_opt_raw.x # fn_result.bias_adj_params_init
    /\ fn_result.row.gcm_mb_mwea # 0


C26_ChunkKeptUntilMerged ==
    [][\A f \in DOMAIN dir :
          (dir[f].kind = "res" /\ dir[f].role = "worker" /\ f \notin DOMAIN dir')
              => \E m \in DOMAIN dir' :
                    /\ dir'[m].kind = "res"
                    /\ dir'[m].role = "merge"
                    /\ dir[f].lines \sqsubseteq dir'[m].lines]_vars


\* C27: every file a merge reads (and so concatenates and removes) is a
\* chunk file written by a worker, and a result file among them was written
\* for the GCM and scenario being merged; a merged result table or a merged
\* lapse-rate file left by an earlier merge is never read.
C27_MergeReadsChunkFilesOnly ==
    \A r \in Procs :
        \A e \in mergeRead[r] :
            /\ e.role = "worker"
            /\ e.kind = "res" => (e.gcm = e.mgcm /\ e.rcp = e.mrcp)


\* C28: every merged lapse-rate file in the output directory has one row per
\* glacier of the population, and row i holds the monthly climatology of the
\* i-th glacier, whatever the number of chunks and the order of the listing.
C28_LrRowsInPopulationOrder ==
    \A f \in DOMAIN dir :
        (dir[f].kind = "lr" /\ dir[f].role = "merge")
            => dir[f].lines = [i \in 1..nglac |-> [m \in 1..NumMonths |-> LrAvg(i, m)]]


\* C29: under the hard-threshold and the ramp policy, for a bin with area and
\* a month of non-negative total precipitation, the liquid and the solid part
\* are each between 0 and the total and add up to the total.
C29_PartitionConserves ==
    (fn = "partition" /\ fn_result # NoField /\ fn_args.glac_bin_precsnow >= 0)
        => /\ 0 <= fn_result.prec /\ fn_result.prec <= fn_args.glac_bin_precsnow
           /\ 0 <= fn_result.acc /\ fn_result.acc <= fn_args.glac_bin_precsnow
           /\ fn_result.prec + fn_result.acc = fn_args.glac_bin_precsnow

\* a bin-month inside the ramp was split into rain and snow, both positive
C29_Witness ==
    /\ fn = "partition"
    /\ fn_result # NoField
    /\ fn_args.option_accumulation = 2
    /\ fn_result.prec > 0
    /\ fn_result.acc > 0
    /\ fn_result.prec + fn_result.acc = fn_args.glac_bin_precsnow


\* C30: whenever stage 2 is about to start, the precipitation factor of its
\* start point is a quotient with a non-zero denominator and a positive
\* value: the area-weighted accumulation of the GCM over the period is not
\* zero when the quotient of line 353 is taken.
C30_PrecSeedDefined ==
    gpc = "stage2"
        => /\ bias_adj_params[2].den > 0
           /\ bias_adj_params[2].num > 0

====
